---- MODULE Spec2Model ----
(***************************************************************************)
(* Synchronisation engine of rx3lixir/event-service: the retry executor    *)
(* (internal/opensearch/indexing/retry.go), the bulk indexer               *)
(* (indexing.BulkOperations, indexing.Manager), the bootstrap loader       *)
(* (internal/dataloader/loader.go) and the consistency Manager.            *)
(*                                                                         *)
(* The specifications of the module:                                       *)
(*   SpecRetry    one call of RetryLogic.ExecuteWithRetry with an          *)
(*                arbitrary operation and a cancellable context;           *)
(*   SpecBulkResp one call of BulkOperations.checkBulkResponse on an       *)
(*                arbitrary decodable bulk response;                       *)
(*   SpecCheck    calls of consistency.Manager.CheckConsistency and        *)
(*                CheckEventConsistency, one after the other, against a    *)
(*                record store and an index that differ;                   *)
(*   SpecRepair   the same calls, and calls of                             *)
(*                Manager.RepairInconsistencies on the result of the last  *)
(*                CheckConsistency, with indexing.Manager.IndexEvent and   *)
(*                DeleteEvent under a cancellable context;                 *)
(*   SpecLock     CheckConsistency called by several goroutines at once,   *)
(*                with the steps of getCachedResult and setCachedResult    *)
(*                under m.mu;                                              *)
(*   SpecPage     CheckConsistency against an index that holds more        *)
(*                documents than the page of its search;                   *)
(*   SpecRepairWrites  SpecRepair with Server.CreateEvent writing the      *)
(*                record store and the index next to the repair;           *)
(*   SpecRepairAny     RepairInconsistencies called with a result its      *)
(*                caller has built;                                        *)
(*   SpecBootTwice     Loader.InitializeOpenSearchData called by two       *)
(*                goroutines, one after the other or at once;              *)
(*   SpecSync     one call of Loader.InitializeOpenSearchData, of          *)
(*                Loader.ForceSyncData, of Loader.CheckSyncStatus or of    *)
(*                Manager.BulkIndexEvents against a record store and an    *)
(*                index, including the nested retry loops.                 *)
(***************************************************************************)
EXTENDS Integers, Sequences, FiniteSets, TLC

(***************************************************************************)
(* Bounds of the model and constants of the program.                       *)
(***************************************************************************)
\* largest value given to WithMaxRetries in SpecRetry
MaxConfiguredRetries == 4

\* NewRetryLogic: maxRetries: 3
DefaultMaxRetries == 3

\* longest items list of a bulk response in SpecBulkResp
MaxItems == 3

\* record sets of SpecSync fill up to MaxChunks full chunks, plus one record
MaxChunks == 2

\* BulkOperations.BulkIndex: const maxBatchSize = 100
maxBatchSize == 100

\* Loader.InitializeOpenSearchData: const batchSize = 100
batchSize == 100

\* l.indexBatchWithRetry(ctx, batch, 3)
loaderMaxRetries == 3

\* the events and documents of SpecCheck have ids 1..MaxIds
MaxIds == 4

\* the clock of SpecCheck runs from 0 to MaxTime minutes
MaxTime == 2

\* the events and documents of SpecRepair have ids 1..MaxRepairIds
MaxRepairIds == 2

\* SpecLock runs the goroutines 1..MaxCallers, each calling CheckConsistency
MaxCallers == 2

\* consistency.New: checkCacheTTL: 1 * time.Minute
checkCacheTTL == 1

\* CheckConsistency: SetPagination(0, 10000)
pageCap == 10000

VARIABLES
    \* ---- RetryLogic.ExecuteWithRetry ----
    maxRetries,     \* r.maxRetries
    attempt,        \* loop variable attempt
    lastErr,        \* lastErr: "nil" or the error of an attempt
    rpc,            \* position: "idle", "call", "backoff", "done"
    retryResult,    \* returned error: "none", "nil", "ctxErr", "exhausted"
    ctxDone,        \* the ctx given to ExecuteWithRetry is cancelled / expired
    opResults,      \* history: the error of every invocation of operation
    sleeps,         \* history: number of backoff sleeps that ran to their end
    ctxDoneAtEntry, \* history: ctx was already cancelled when the call began
    cancelledInSleep, \* history: ctx was cancelled during a backoff sleep
    \* ---- BulkOperations.checkBulkResponse ----
    response,       \* the body given to checkBulkResponse
    cbrPc,          \* position: "idle", "ready", "done"
    cbrResult,      \* returned error: "none", "nil", "decodeErr", "allFailed"
    \* ---- the two stores and the caller ----
    entry,          \* the call under way: "Bootstrap", "ForceSync",
                    \* "CheckSyncStatus" or "BulkIndexEvents"
    total,          \* the record store holds the events with ids 1..total, in this order
    invalidIds,     \* ids of the events that fail ValidateForIndexing
    rejectedIds,    \* ids of the documents the index rejects in a bulk response
    index,          \* ids of the documents in the index
    index0,         \* history: the index when the call began
    callerCtxDone,  \* the caller's context is cancelled
    cancelledAt,    \* history: the position of the loader when the caller
                    \* cancelled, "none" before
    \* ---- Loader.InitializeOpenSearchData / indexBatchWithRetry ----
    lpc,            \* position of the loader
    li,             \* loop variable i of the chunk loop
    successCount,   \* successCount
    errorCount,     \* errorCount
    lAttempt,       \* loop variable attempt of indexBatchWithRetry
    lLastErr,       \* lastErr of indexBatchWithRetry
    bootResult,     \* returned error of the Loader method: "none", "nil",
                    \* "storeErr", "noneIndexed", "recreateErr", "searchErr"
    syncStatus,     \* the *SyncStatus CheckSyncStatus returns, or NoStatus
    \* ---- Manager.BulkIndexEvents / BulkOperations.BulkIndex ----
    mpc,            \* position of BulkIndexEvents
    bLo,            \* the events given to BulkIndexEvents are events[bLo+1..bHi]
    bHi,
    bi,             \* loop variable i of BulkIndex, an offset into its docs
    bulkResult,     \* returned error of BulkIndexEvents
    \* ---- history ----
    chunkLog,       \* the chunks <<i, end>> the loader loop has taken up
    bulkChunkLog,   \* the chunks <<i, end>> this BulkIndex call has taken up
    chunkFailures,  \* bulk requests of the current chunk that failed as a whole,
                    \* counted up to the retry limit, and kept once a chunk got there
    chunkResults,   \* for every chunk the loader loop is done with: "ok" or "failed"
    bulkSubmits,    \* bulk requests sent for the current chunk under a live context
    indexWritten,   \* a bulk request was sent under a live context during the call
    indexRead,      \* a search was sent to the index during the call
    \* ---- consistency.Manager ----
    dbEvents,       \* the record store: id -> event
    osDocs,         \* the index: id -> document
    now,            \* the clock, in minutes
    kcall,          \* the call under way: "CheckConsistency",
                    \* "CheckEventConsistency", "RepairInconsistencies"
    kid,            \* eventID of CheckEventConsistency
    kpc,            \* position: "idle", "readDb", "readIndex",
                    \* "readIndexNoRecord", the loop and sub-operation of
                    \* a repair, "done"
    dbSnap,         \* dbEvents / dbEvent as read by the call under way
    checkResult,    \* the *CheckResult returned, or NoResult
    checkErr,       \* the error returned: "none", "nil", "dbErr", "searchErr"
    fromCache,      \* history: the call returned the cached result
    lastCheck,      \* m.lastCheck, NoResult for nil
    lastCheckTime,  \* m.lastCheckTime
    kReads,         \* history: the stores the call under way has sent a read to
    kStart,         \* history: the clock when the call under way began
    kDbErr,         \* history: how the record-store read of CheckEventConsistency
                    \* ended: "none", "nil", "notFound", "ioErr"
    kIndexErr,      \* history: an index search of the call under way failed
    \* ---- Manager.RepairInconsistencies ----
    repairResult,   \* returned error: "none", "nil", "repairErr"
    ri,             \* position in the list the loop under way ranges over
    repairErrors,   \* len(repairErrors)
    processedEvents, \* processedEvents
    rEvent,         \* event, as fetched for the id at hand, <<>> for none
    rAttempts,      \* history: <<list, id>> of every entry a repair was begun for
    rFailures,      \* history: the sub-operations that returned an error
    rIndexRequests, \* history: index requests sent under a live context
    rDeleteRequests, \* history: delete requests sent under a live context
    rWritten,       \* history: <<id, document>> of every document written
    rFetchFailed,   \* history: the ids whose fetch failed
    rAfterCancel,   \* history: sub-operations begun after the context was cancelled
    \* ---- concurrent callers of Manager.CheckConsistency ----
    mu,             \* m.mu: the goroutines holding it for reading, and the one
                    \* holding it for writing, NoCaller for none
    cpc,            \* position of every goroutine
    cSeen,          \* m.lastCheck as getCachedResult read it
    cHit,           \* getCachedResult is going to return the cached result
    cSnap,          \* dbEvents, as GetEvents returned it
    cResult,        \* result of CheckConsistency, NoResult for nil
    cErr,           \* the error returned: "none", "nil", "dbErr", "searchErr"
    cacheWhole,     \* history: <<result, time>> of the last setCachedResult
                    \* that returned
    \* ---- concurrent callers of Loader.InitializeOpenSearchData ----
    loaders,        \* for every goroutine: its position pc, the loop variable i,
                    \* successCount, errorCount, attempt of
                    \* indexBatchWithRetry, retry (attempt of ExecuteWithRetry)
                    \* and the returned error result
    \* ---- the requests of ExecuteWithRetry's operations ----
    requestLog      \* history: for every request an attempt of the call under
                    \* way has made: the operation, the context the request
                    \* was bound to, and whether it was answered after the
                    \* attempt's timeout had run out

retryVars == <<maxRetries, attempt, lastErr, rpc, retryResult, ctxDone,
               opResults, sleeps, ctxDoneAtEntry, cancelledInSleep>>

cbrVars == <<response, cbrPc, cbrResult>>

storeVars == <<entry, total, invalidIds, rejectedIds, index, index0, callerCtxDone,
               cancelledAt>>

loaderVars == <<lpc, li, successCount, errorCount, lAttempt, lLastErr, bootResult>>

bulkVars == <<mpc, bLo, bHi, bi, bulkResult>>

histVars == <<chunkLog, bulkChunkLog, chunkFailures>>

auditVars == <<syncStatus, chunkResults, bulkSubmits, indexWritten, indexRead>>

syncVars == <<storeVars, loaderVars, bulkVars, histVars, auditVars>>

kAudit == <<kReads, kStart, kDbErr, kIndexErr>>

repLocals == <<repairResult, ri, repairErrors, processedEvents, rEvent>>

repAudit == <<rAttempts, rFailures, rIndexRequests, rDeleteRequests, rWritten,
              rFetchFailed, rAfterCancel>>

repVars == <<repLocals, repAudit>>

lockVars == <<mu, cpc, cSeen, cHit, cSnap, cResult, cErr, cacheWhole>>

conVars == <<dbEvents, osDocs, now, kcall, kid, kpc, dbSnap, checkResult,
             checkErr, fromCache, lastCheck, lastCheckTime, kAudit, repVars,
             lockVars>>

vars == <<retryVars, cbrVars, loaders, requestLog, syncVars, conVars>>

\* the variables of a component that the specification at hand does not run
RetryIdle ==
    /\ maxRetries = DefaultMaxRetries
    /\ attempt = 1
    /\ lastErr = "nil"
    /\ rpc = "idle"
    /\ retryResult = "none"
    /\ ctxDone = FALSE
    /\ opResults = <<>>
    /\ sleeps = 0
    /\ ctxDoneAtEntry = FALSE
    /\ cancelledInSleep = FALSE

\* CheckSyncStatus has not returned a status
NoStatus ==
    [PostgreSQLCount |-> 0, OpenSearchCount |-> 0, InSync |-> FALSE,
     Difference |-> 0, returned |-> FALSE]

\* a body json.Decode rejects
Undecodable == [decodable |-> FALSE, errors |-> FALSE, items |-> <<>>]

CbrIdle ==
    /\ response = Undecodable
    /\ cbrPc = "idle"
    /\ cbrResult = "none"

SyncIdle ==
    /\ entry = "none"
    /\ total = 0
    /\ invalidIds = {}
    /\ rejectedIds = {}
    /\ index = {}
    /\ index0 = {}
    /\ callerCtxDone = FALSE
    /\ cancelledAt = "none"
    /\ lpc = "idle"
    /\ li = 0
    /\ successCount = 0
    /\ errorCount = 0
    /\ lAttempt = 1
    /\ lLastErr = "nil"
    /\ bootResult = "none"
    /\ mpc = "idle"
    /\ bLo = 0
    /\ bHi = 0
    /\ bi = 0
    /\ bulkResult = "none"
    /\ chunkLog = <<>>
    /\ bulkChunkLog = <<>>
    /\ chunkFailures = 0
    /\ syncStatus = NoStatus
    /\ chunkResults = <<>>
    /\ bulkSubmits = 0
    /\ indexWritten = FALSE
    /\ indexRead = FALSE

\* the nil *CheckResult
NoResult ==
    [IsConsistent |-> FALSE, TotalEventsDB |-> 0, TotalEventsES |-> 0,
     MissingInES |-> <<>>, MissingInDB |-> <<>>, Mismatches |-> <<>>,
     Timestamp |-> 0, isNil |-> TRUE]

\* the two goroutines of SpecBootTwice, each calling
\* InitializeOpenSearchData once
Loaders == {1, 2}

\* a goroutine that has not begun the call
LoaderAtEntry ==
    [pc |-> "getEvents", i |-> 0, successCount |-> 0, errorCount |-> 0,
     attempt |-> 1, retry |-> 1, result |-> "none"]

\* the goroutines that call CheckConsistency at the same time
Callers == 1..MaxCallers

NoCaller == 0

\* no goroutine has called the Manager, m.mu is free
LockIdle ==
    /\ mu = [readers |-> {}, writer |-> NoCaller]
    /\ cpc = [c \in Callers |-> "idle"]
    /\ cSeen = [c \in Callers |-> NoResult]
    /\ cHit = [c \in Callers |-> FALSE]
    /\ cSnap = [c \in Callers |-> <<>>]
    /\ cResult = [c \in Callers |-> NoResult]
    /\ cErr = [c \in Callers |-> "none"]
    /\ cacheWhole = <<NoResult, 0>>

\* no call of RepairInconsistencies has begun
RepairIdle ==
    /\ repairResult = "none"
    /\ ri = 1
    /\ repairErrors = 0
    /\ processedEvents = {}
    /\ rEvent = <<>>
    /\ rAttempts = {}
    /\ rFailures = 0
    /\ rIndexRequests = 0
    /\ rDeleteRequests = 0
    /\ rWritten = {}
    /\ rFetchFailed = {}
    /\ rAfterCancel = 0

ConIdle ==
    /\ dbEvents = <<>>
    /\ osDocs = <<>>
    /\ now = 0
    /\ kcall = "none"
    /\ kid = 0
    /\ kpc = "idle"
    /\ dbSnap = <<>>
    /\ checkResult = NoResult
    /\ checkErr = "none"
    /\ fromCache = FALSE
    /\ lastCheck = NoResult
    /\ lastCheckTime = 0
    /\ kReads = {}
    /\ kStart = 0
    /\ kDbErr = "none"
    /\ kIndexErr = FALSE
    /\ RepairIdle
    /\ LockIdle

(***************************************************************************)
(* RetryLogic.ExecuteWithRetry                                             *)
(***************************************************************************)
\* the errors an operation can return
OpErrors == {"nil", "opErr"}

LoopContinuesOffByOne(a, m) == a <= m + 1

\* for attempt := 1; attempt <= r.maxRetries; attempt++
LoopContinues(a, m) == a <= m

\* if err == nil { if attempt > 1 { ...; return nil } }
ReturnsOnSuccess(err, a) == err = "nil" /\ a > 1

\* if attempt < r.maxRetries { ... select ... }
SleepsAfter(a, m) == a < m

SelectIgnoresDone(done) == "timer"

\* select { case <-ctx.Done(): return ctx.Err(); case <-time.After(delay): }
\* the delay is positive (baseDelay = 1s), so a context that is done wins
SelectBackoff(done) == IF done THEN "ctxErr" ELSE "timer"

\* entering the for loop with the given attempt number: either the body
\* runs (position "call") or the loop is over and the wrapped error returns
RetryLoopHead(a, m) ==
    IF LoopContinues(a, m) THEN [pc |-> "call", result |-> "none"]
                           ELSE [pc |-> "done", result |-> "exhausted"]

\* state of ExecuteWithRetry at its first statement
RetryEntry(m, done) ==
    /\ maxRetries = m
    /\ attempt = 1
    /\ lastErr = "nil"
    /\ rpc = RetryLoopHead(1, m).pc
    /\ retryResult = RetryLoopHead(1, m).result
    /\ ctxDone = done
    /\ opResults = <<>>
    /\ sleeps = 0
    /\ ctxDoneAtEntry = done
    /\ cancelledInSleep = FALSE

\* one run of the loop body up to the select: operation(opCtx) returned err
RetryAttempt(err) ==
    /\ rpc = "call"
    /\ opResults' = Append(opResults, err)
    /\ IF ReturnsOnSuccess(err, attempt)
       THEN /\ rpc' = "done"
            /\ retryResult' = "nil"
            /\ UNCHANGED <<attempt, lastErr>>
       ELSE /\ lastErr' = err
            /\ IF SleepsAfter(attempt, maxRetries)
               THEN /\ rpc' = "backoff"
                    /\ UNCHANGED <<attempt, retryResult>>
               ELSE /\ attempt' = attempt + 1
                    /\ rpc' = RetryLoopHead(attempt + 1, maxRetries).pc
                    /\ retryResult' = RetryLoopHead(attempt + 1, maxRetries).result
    /\ UNCHANGED <<maxRetries, ctxDone, sleeps, ctxDoneAtEntry, cancelledInSleep>>

\* the select of the backoff: the timer fires and the loop goes on
BackoffElapsed ==
    /\ rpc = "backoff"
    /\ SelectBackoff(ctxDone) = "timer"
    /\ attempt' = attempt + 1
    /\ rpc' = RetryLoopHead(attempt + 1, maxRetries).pc
    /\ retryResult' = RetryLoopHead(attempt + 1, maxRetries).result
    /\ sleeps' = sleeps + 1
    /\ UNCHANGED <<maxRetries, lastErr, ctxDone, opResults, ctxDoneAtEntry,
                   cancelledInSleep>>

\* the select of the backoff: ctx.Done() is ready, return ctx.Err()
BackoffCancelled ==
    /\ rpc = "backoff"
    /\ SelectBackoff(ctxDone) = "ctxErr"
    /\ rpc' = "done"
    /\ retryResult' = "ctxErr"
    /\ UNCHANGED <<maxRetries, attempt, lastErr, ctxDone, opResults, sleeps,
                   ctxDoneAtEntry, cancelledInSleep>>

\* the caller cancels the context while ExecuteWithRetry runs
CtxCancel ==
    /\ rpc \in {"call", "backoff"}
    /\ ~ctxDone
    /\ ctxDone' = TRUE
    /\ cancelledInSleep' = (cancelledInSleep \/ rpc = "backoff")
    /\ UNCHANGED <<maxRetries, attempt, lastErr, rpc, retryResult, opResults,
                   sleeps, ctxDoneAtEntry>>

\* the operation given to ExecuteWithRetry returns: any error, any time
OperationReturns ==
    /\ \E err \in OpErrors : RetryAttempt(err)
    /\ UNCHANGED <<cbrVars, loaders, requestLog, conVars, syncVars>>

\* WithMaxRetries configures any number of attempts; at least one is modelled
InitRetry ==
    /\ \E m \in 1..MaxConfiguredRetries : \E done \in BOOLEAN : RetryEntry(m, done)
    /\ CbrIdle
    /\ SyncIdle
    /\ ConIdle
    /\ requestLog = {}
    /\ loaders = [p \in Loaders |-> LoaderAtEntry]

NextRetry ==
    \/ OperationReturns
    \/ BackoffElapsed /\ UNCHANGED <<cbrVars, loaders, requestLog, conVars, syncVars>>
    \/ BackoffCancelled /\ UNCHANGED <<cbrVars, loaders, requestLog, conVars, syncVars>>
    \/ CtxCancel /\ UNCHANGED <<cbrVars, loaders, requestLog, conVars, syncVars>>

SpecRetry == InitRetry /\ [][NextRetry]_vars

\* every step of ExecuteWithRetry is eventually taken: the operation returns
\* (each attempt runs under a 30s timeout) and the select returns
SpecRetryFair ==
    SpecRetry /\ WF_vars(OperationReturns)
              /\ WF_vars(BackoffElapsed /\ UNCHANGED <<cbrVars, loaders, requestLog, conVars, syncVars>>)
              /\ WF_vars(BackoffCancelled /\ UNCHANGED <<cbrVars, loaders, requestLog, conVars, syncVars>>)

opCalls == Len(opResults)

\* the operation failed on its first k invocations and succeeded on every later one
FailsKThenSucceeds(k) ==
    \A i \in 1..Len(opResults) : opResults[i] = (IF i <= k THEN "opErr" ELSE "nil")

(***************************************************************************)
(* Claims about ExecuteWithRetry                                           *)
(***************************************************************************)
\* C1: when the operation succeeds on its first attempt and the context is
\* not cancelled, the operation is invoked exactly once, no backoff sleep
\* happens and ExecuteWithRetry returns nil.
C1_ReturnsImmediatelyOnSuccess ==
    (rpc = "done" /\ ~ctxDone /\ opCalls >= 1 /\ opResults[1] = "nil")
        => (opCalls = 1 /\ sleeps = 0 /\ retryResult = "nil")

\* C2: for every k < maxRetries, an operation that fails exactly k times and
\* then succeeds, under an uncancelled context, makes ExecuteWithRetry return nil.
C2_FailsKThenSucceedsReturnsNil ==
    \A k \in 0..MaxConfiguredRetries :
        (rpc = "done" /\ ~ctxDone /\ k < maxRetries /\ FailsKThenSucceeds(k))
            => retryResult = "nil"

\* C3: with a context that is cancelled before any attempt, ExecuteWithRetry
\* returns the cancellation error and invokes the operation zero times.
C3_CancelledBeforeStartMakesNoAttempt ==
    (rpc = "done" /\ ctxDoneAtEntry) => (retryResult = "ctxErr" /\ opCalls = 0)

\* C4: once the context is cancelled during a backoff sleep, the operation is
\* not invoked again and the only way on is to return the cancellation error.
C4_CancelInBackoffReturnsCtxErr ==
    [][cancelledInSleep =>
          /\ opResults' = opResults
          /\ rpc' \in {"backoff", "done"}
          /\ (rpc' = "done" => retryResult' = "ctxErr")]_vars

C4_Witness ==
    /\ cancelledInSleep
    /\ rpc = "done"
    /\ retryResult = "ctxErr"
    /\ opCalls >= 1
    /\ opCalls < maxRetries

\* C5: a returned error that is not the cancellation error means the operation
\* was invoked exactly maxRetries times, every attempt failed, and the wrapped
\* last error is not nil.
C5_ExhaustedMeansAllAttemptsFailed ==
    (rpc = "done" /\ retryResult = "exhausted")
        => /\ opCalls = maxRetries
           /\ \A i \in 1..opCalls : opResults[i] = "opErr"
           /\ lastErr # "nil"

\* C6: whatever the operation does, ExecuteWithRetry invokes it at most
\* maxRetries times and terminates.
C6_BoundedAttemptsAndTermination ==
    [](opCalls <= maxRetries) /\ <>(rpc = "done")

C6_Witness ==
    /\ rpc = "done"
    /\ maxRetries = DefaultMaxRetries
    /\ opCalls = maxRetries
    /\ retryResult = "exhausted"

(***************************************************************************)
(* BulkOperations.checkBulkResponse                                        *)
(***************************************************************************)
\* Items[].Index: Status int, Error *struct (nil or an error object)
BulkItems == [status : {201, 400}, error : BOOLEAN]

\* the decoded body: Errors bool, Items []struct
BulkResponses(n) ==
    [decodable : {TRUE}, errors : BOOLEAN,
     items : UNION {[1..k -> BulkItems] : k \in 0..n}]

\* len(errors) after the loop: the items with item.Index.Error != nil
RECURSIVE ErrorCount(_)
ErrorCount(items) ==
    IF items = <<>> THEN 0
    ELSE (IF items[Len(items)].error THEN 1 ELSE 0)
         + ErrorCount(SubSeq(items, 1, Len(items) - 1))

\* successCount after the loop: no error object and a 2xx status (only logged)
RECURSIVE SuccessCount(_)
SuccessCount(items) ==
    IF items = <<>> THEN 0
    ELSE (IF ~items[Len(items)].error /\ items[Len(items)].status >= 200
             /\ items[Len(items)].status < 300 THEN 1 ELSE 0)
         + SuccessCount(SubSeq(items, 1, Len(items) - 1))

AllFailedBySuccessCount(items) == SuccessCount(items) = 0

\* if len(errors) == len(response.Items) { return "all bulk operations failed" }
AllFailed(items) == ErrorCount(items) = Len(items)

\* the error checkBulkResponse returns for a body
CheckBulkResponse(body) ==
    IF ~body.decodable THEN "decodeErr"
    ELSE IF ~body.errors THEN "nil"
    ELSE IF AllFailed(body.items) THEN "allFailed"
    ELSE "nil"

CheckBulkResponseCall ==
    /\ cbrPc = "ready"
    /\ cbrResult' = CheckBulkResponse(response)
    /\ cbrPc' = "done"
    /\ UNCHANGED response
    /\ UNCHANGED <<retryVars, syncVars, conVars, requestLog, loaders>>

InitBulkResp ==
    /\ response \in BulkResponses(MaxItems) \cup {Undecodable}
    /\ cbrPc = "ready"
    /\ cbrResult = "none"
    /\ RetryIdle
    /\ SyncIdle
    /\ ConIdle
    /\ requestLog = {}
    /\ loaders = [p \in Loaders |-> LoaderAtEntry]

NextBulkResp == CheckBulkResponseCall

SpecBulkResp == InitBulkResp /\ [][NextBulkResp]_vars

(***************************************************************************)
(* Claims about checkBulkResponse                                          *)
(***************************************************************************)
\* C7 as stated, for a response that flags per-item errors: the chunk is
\* reported as an error if and only if every item failed; with at least one
\* item that did not fail, with zero items, or with items of non-2xx status
\* and no error object, it is reported as success.
C7_ErrorIffEveryItemFailed ==
    (cbrPc = "done" /\ response.decodable /\ response.errors)
        => (cbrResult # "nil"
              <=> /\ Len(response.items) > 0
                  /\ \A i \in 1..Len(response.items) : response.items[i].error)

\* C7 as amended: the chunk is reported as an error if and only if the
\* response's errors flag is set and every listed item carries an error
\* object, which includes a flagged response that lists zero items.
C7_ErrorIffFlaggedAndEveryItemHasError ==
    (cbrPc = "done" /\ response.decodable)
        => (cbrResult # "nil"
              <=> /\ response.errors
                  /\ \A i \in 1..Len(response.items) : response.items[i].error)

C7_Witness ==
    /\ cbrPc = "done"
    /\ response.decodable
    /\ response.errors
    /\ Len(response.items) = 2
    /\ response.items[1].error
    /\ ~response.items[2].error
    /\ response.items[2].status = 400
    /\ cbrResult = "nil"

(***************************************************************************)
(* The record store and the index                                          *)
(***************************************************************************)
\* sizes of the record set: empty, small, and around every chunk boundary
RecordSetSizes ==
    {0, 1, 2} \cup {k * batchSize + d : k \in 1..MaxChunks, d \in {0, 1}}

\* the id of a document that no record has
OrphanId == 0 - 1

\* what one bulk request can come to: transport failure (also a context that
\* is done), a non-2xx response to the whole request, a processed request
\* with a readable response, a processed request whose body cannot be decoded
BulkOutcomes(done) ==
    IF done THEN {"neterr"} ELSE {"neterr", "httperr", "ok", "garbled"}

\* the per-item response of the index to "index" actions for ids from+1..to:
\* a rejected document carries an error object, the others status 201
ServerResponse(from, to) ==
    [decodable |-> TRUE,
     errors |-> (\E id \in (from + 1)..to : id \in rejectedIds),
     items |-> [j \in 1..(to - from) |->
                  IF (from + j) \in rejectedIds
                  THEN [status |-> 400, error |-> TRUE]
                  ELSE [status |-> 201, error |-> FALSE]]]

\* the documents a processed bulk request leaves in the index
IndexAfterBulk(idx, from, to) == idx \cup ((from + 1)..to \ rejectedIds)

(***************************************************************************)
(* BulkOperations.BulkIndex, processBatch, executeBulkRequest              *)
(***************************************************************************)
BulkChunkEndUnclamped(i, n) == i + maxBatchSize

\* end := i + maxBatchSize; if end > len(docs) { end = len(docs) }
BulkChunkEnd(i, n) == IF i + maxBatchSize > n THEN n ELSE i + maxBatchSize

\* the error executeBulkRequest returns, "nil" or "opErr"
ExecuteBulkRequestError(outcome, from, to) ==
    CASE outcome = "neterr" -> "opErr"
      [] outcome = "httperr" -> "opErr"
      [] outcome = "garbled" ->
            IF CheckBulkResponse(Undecodable) = "nil" THEN "nil" ELSE "opErr"
      [] outcome = "ok" ->
            IF CheckBulkResponse(ServerResponse(from, to)) = "nil"
            THEN "nil" ELSE "opErr"

\* a whole-request failure, as opposed to documents the index rejects
IsTransientFailure(outcome) == outcome \in {"neterr", "httperr", "garbled"}

\* processBatch: func(ctx context.Context) error { return
\* b.executeBulkRequest(ctx, docs) }: the parameter shadows the outer ctx, the
\* request is bound to the context of the attempt
ProcessBatchRequestCtx == "opCtx"

\* IndexEvent: func(context.Context) error { return m.indexSingleEvent(ctx,
\* doc) }: the parameter has no name, ctx is the context IndexEvent was given
IndexEventRequestCtx == "ctx"

\* DeleteEvent: func(ctx context.Context) error { return
\* m.deleteSingleEvent(ctx, eventID) }
DeleteEventRequestCtx == "opCtx"

\* the context a request is bound to is done before the index answers: the
\* outer context is done, or the request is bound to opCtx, of
\* context.WithTimeout(ctx, 30*time.Second), and the 30s have run out
RequestCtxDone(bound, outerDone, timedOut) ==
    outerDone \/ (bound = "opCtx" /\ timedOut)

\* the entry of requestLog for one request
Request(op, bound, timedOut, answered) ==
    [op |-> op, ctx |-> bound, overran |-> timedOut /\ answered]

\* ExecuteWithRetry begins, under the context BulkIndexEvents was given
RetryEnter(m) ==
    /\ maxRetries' = m
    /\ attempt' = 1
    /\ lastErr' = "nil"
    /\ rpc' = RetryLoopHead(1, m).pc
    /\ retryResult' = RetryLoopHead(1, m).result
    /\ opResults' = <<>>
    /\ sleeps' = 0
    /\ ctxDoneAtEntry' = ctxDone
    /\ cancelledInSleep' = FALSE
    /\ UNCHANGED ctxDone

\* ExecuteWithRetry has returned: its locals are gone
RetryLeave ==
    /\ maxRetries' = DefaultMaxRetries
    /\ attempt' = 1
    /\ lastErr' = "nil"
    /\ rpc' = "idle"
    /\ retryResult' = "none"
    /\ opResults' = <<>>
    /\ sleeps' = 0
    /\ ctxDoneAtEntry' = FALSE
    /\ cancelledInSleep' = FALSE
    /\ UNCHANGED ctxDone

\* Manager.BulkIndexEvents up to the call of BulkIndex: the empty batch
\* returns nil, one invalid document fails the whole batch
BulkIndexEventsValidate ==
    /\ mpc = "validate"
    /\ IF bHi - bLo = 0
       THEN /\ bulkResult' = "nil"
            /\ mpc' = "returned"
            /\ UNCHANGED <<bi, bulkChunkLog>>
       ELSE IF \E id \in (bLo + 1)..bHi : id \in invalidIds
       THEN /\ bulkResult' = "validationErr"
            /\ mpc' = "returned"
            /\ UNCHANGED <<bi, bulkChunkLog>>
       ELSE /\ mpc' = "loopHead"
            /\ bi' = 0
            /\ bulkChunkLog' = <<>>
            /\ UNCHANGED bulkResult
    /\ UNCHANGED <<bLo, bHi, chunkLog, chunkFailures>>
    /\ UNCHANGED <<retryVars, cbrVars, loaders, requestLog, conVars, storeVars, loaderVars, auditVars>>

\* for i := 0; i < len(docs); i += maxBatchSize: the next chunk goes to
\* processBatch, or the loop is over and BulkIndex returns nil
BulkIndexLoopHead ==
    /\ mpc = "loopHead"
    /\ IF bi < bHi - bLo
       THEN /\ mpc' = "inner"
            /\ bulkChunkLog' = Append(bulkChunkLog, <<bi, BulkChunkEnd(bi, bHi - bLo)>>)
            /\ RetryEnter(DefaultMaxRetries)
            /\ UNCHANGED bulkResult
       ELSE /\ mpc' = "returned"
            /\ bulkResult' = "nil"
            /\ UNCHANGED <<retryVars, bulkChunkLog>>
    /\ bulkSubmits' = (IF entry = "BulkIndexEvents" /\ bi < bHi - bLo
                       THEN 0 ELSE bulkSubmits)
    /\ UNCHANGED <<bLo, bHi, bi, chunkLog, chunkFailures>>
    /\ UNCHANGED <<syncStatus, chunkResults, indexWritten, indexRead>>
    /\ UNCHANGED <<cbrVars, loaders, requestLog, conVars, storeVars, loaderVars>>

\* one attempt of processBatch: executeBulkRequest sends the chunk
ExecuteBulkRequest ==
    /\ mpc = "inner"
    /\ rpc = "call"
    /\ \E timedOut \in BOOLEAN :
       \E outcome \in BulkOutcomes(RequestCtxDone(ProcessBatchRequestCtx,
                                                  ctxDone, timedOut)) :
         LET from == bLo + bi
             to == bLo + BulkChunkEnd(bi, bHi - bLo)
         IN /\ requestLog' = requestLog \cup
                  {Request("bulk", ProcessBatchRequestCtx, timedOut,
                           ~IsTransientFailure(outcome))}
            /\ index' = (IF outcome \in {"ok", "garbled"}
                         THEN IndexAfterBulk(index, from, to) ELSE index)
            /\ RetryAttempt(ExecuteBulkRequestError(outcome, from, to))
            /\ chunkFailures' =
                  (IF IsTransientFailure(outcome) /\ chunkFailures < loaderMaxRetries
                   THEN chunkFailures + 1 ELSE chunkFailures)
    /\ bulkSubmits' = (IF ctxDone THEN bulkSubmits ELSE bulkSubmits + 1)
    /\ indexWritten' = (indexWritten \/ ~ctxDone)
    /\ UNCHANGED <<entry, total, invalidIds, rejectedIds, index0, callerCtxDone,
                   cancelledAt>>
    /\ UNCHANGED <<chunkLog, bulkChunkLog>>
    /\ UNCHANGED <<syncStatus, chunkResults, indexRead>>
    /\ UNCHANGED <<cbrVars, loaders, conVars, loaderVars, bulkVars>>

\* the backoff of processBatch's ExecuteWithRetry ends
BulkBackoffElapsed ==
    /\ mpc = "inner"
    /\ BackoffElapsed
    /\ UNCHANGED <<cbrVars, loaders, requestLog, conVars, syncVars>>

BulkBackoffCancelled ==
    /\ mpc = "inner"
    /\ BackoffCancelled
    /\ UNCHANGED <<cbrVars, loaders, requestLog, conVars, syncVars>>

\* i += maxBatchSize
BulkNextChunk(i) == i + maxBatchSize

BatchNeverFails(err) == FALSE

\* if err := b.processBatch(ctx, batch); err != nil
BatchFailed(err) == err # "nil"

\* processBatch returned: an error ends BulkIndex, nil moves to the next chunk
ProcessBatchReturns ==
    /\ mpc = "inner"
    /\ rpc = "done"
    /\ IF BatchFailed(retryResult)
       THEN /\ bulkResult' = "batchErr"
            /\ mpc' = "returned"
            /\ UNCHANGED bi
       ELSE /\ bi' = BulkNextChunk(bi)
            /\ mpc' = "loopHead"
            /\ UNCHANGED bulkResult
    /\ RetryLeave
    /\ UNCHANGED <<bLo, bHi>>
    /\ UNCHANGED <<cbrVars, loaders, requestLog, conVars, storeVars, loaderVars, histVars, auditVars>>

\* BulkIndexEvents, called directly, returns to its caller
BulkIndexEventsReturns ==
    /\ entry = "BulkIndexEvents"
    /\ mpc = "returned"
    /\ mpc' = "done"
    /\ UNCHANGED <<bLo, bHi, bi, bulkResult>>
    /\ UNCHANGED <<retryVars, cbrVars, loaders, requestLog, conVars, storeVars, loaderVars, histVars, auditVars>>

(***************************************************************************)
(* Loader.InitializeOpenSearchData, Loader.indexBatchWithRetry             *)
(***************************************************************************)
RecordSetNeverEmpty(n) == FALSE

\* if len(events) == 0
RecordSetIsEmpty(n) == n = 0

\* events, err := l.storer.GetEvents(ctx); the read fails under a cancelled
\* context and may fail otherwise; an empty record set ends the call
GetEvents ==
    /\ entry = "Bootstrap"
    /\ lpc = "getEvents"
    /\ \E ok \in (IF callerCtxDone THEN {FALSE} ELSE BOOLEAN) :
         IF ~ok THEN /\ lpc' = "done"
                     /\ bootResult' = "storeErr"
         ELSE IF RecordSetIsEmpty(total) THEN /\ lpc' = "done"
                                              /\ bootResult' = "nil"
         ELSE /\ lpc' = "probe"
              /\ UNCHANGED bootResult
    /\ UNCHANGED <<li, successCount, errorCount, lAttempt, lLastErr>>
    /\ UNCHANGED <<retryVars, cbrVars, loaders, requestLog, conVars, storeVars, bulkVars, histVars, auditVars>>

\* SearchEvents with pagination (0, 1): a failed probe is only logged, a
\* positive total ends the call, otherwise the chunk loop begins
ProbeIndex ==
    /\ lpc = "probe"
    /\ \E ok \in (IF callerCtxDone THEN {FALSE} ELSE BOOLEAN) :
         IF ok /\ Cardinality(index) > 0
         THEN /\ lpc' = "done"
              /\ bootResult' = "nil"
              /\ UNCHANGED li
         ELSE /\ lpc' = "loopHead"
              /\ li' = 0
              /\ UNCHANGED bootResult
    /\ indexRead' = TRUE
    /\ UNCHANGED <<syncStatus, chunkResults, bulkSubmits, indexWritten>>
    /\ UNCHANGED <<successCount, errorCount, lAttempt, lLastErr>>
    /\ UNCHANGED <<retryVars, cbrVars, loaders, requestLog, conVars, storeVars, bulkVars, histVars>>

\* end := i + batchSize; if end > totalEvents { end = totalEvents }
LoaderChunkEnd(i, n) == IF i + batchSize > n THEN n ELSE i + batchSize

LoaderNextChunkSkipsOne(i) == i + batchSize + 1

\* i += batchSize
LoaderNextChunk(i) == i + batchSize

BootstrapVerdictAnyError(succ, errs) ==
    IF errs > 0 THEN "noneIndexed" ELSE "nil"

\* if errorCount > 0 { if successCount == 0 { return error }; return nil }
BootstrapVerdict(succ, errs) ==
    IF errs > 0 /\ succ = 0 THEN "noneIndexed" ELSE "nil"

\* for i := 0; i < totalEvents; i += batchSize: the next chunk goes to
\* indexBatchWithRetry, or the loop is over and the counts decide the result
LoaderLoopHead ==
    /\ lpc = "loopHead"
    /\ IF li < total
       THEN /\ lpc' = "attempt"
            /\ lAttempt' = 1
            /\ lLastErr' = "nil"
            /\ chunkLog' = Append(chunkLog, <<li, LoaderChunkEnd(li, total)>>)
            /\ chunkFailures' =
                  (IF chunkFailures < loaderMaxRetries THEN 0 ELSE chunkFailures)
            /\ bulkSubmits' = 0
            /\ UNCHANGED bootResult
       ELSE /\ lpc' = "done"
            /\ bootResult' = BootstrapVerdict(successCount, errorCount)
            /\ UNCHANGED <<lAttempt, lLastErr, chunkLog, chunkFailures, bulkSubmits>>
    /\ UNCHANGED <<li, successCount, errorCount, bulkChunkLog>>
    /\ UNCHANGED <<syncStatus, chunkResults, indexWritten, indexRead>>
    /\ UNCHANGED <<retryVars, cbrVars, loaders, requestLog, conVars, storeVars, bulkVars>>

\* retryCtx := WithTimeout(ctx, 30s); l.osService.BulkIndexEvents(retryCtx, events)
LoaderAttempt ==
    /\ lpc = "attempt"
    /\ lpc' = "inBulk"
    /\ mpc' = "validate"
    /\ bLo' = li
    /\ bHi' = LoaderChunkEnd(li, total)
    /\ bi' = 0
    /\ bulkResult' = "none"
    /\ ctxDone' = callerCtxDone
    /\ UNCHANGED <<maxRetries, attempt, lastErr, rpc, retryResult, opResults,
                   sleeps, ctxDoneAtEntry, cancelledInSleep>>
    /\ UNCHANGED <<li, successCount, errorCount, lAttempt, lLastErr, bootResult>>
    /\ UNCHANGED <<cbrVars, loaders, requestLog, conVars, storeVars, histVars, auditVars>>

ChunkDoneStopsOnFailure(ok) ==
    /\ successCount' = successCount + (IF ok THEN LoaderChunkEnd(li, total) - li ELSE 0)
    /\ errorCount' = errorCount + (IF ok THEN 0 ELSE LoaderChunkEnd(li, total) - li)
    /\ chunkResults' = Append(chunkResults, IF ok THEN "ok" ELSE "failed")
    /\ li' = (IF ok THEN LoaderNextChunk(li) ELSE total)
    /\ lpc' = "loopHead"

\* the chunk is done, indexed or failed: count it and move on
\* (errorCount += len(batch); continue / successCount += len(batch))
ChunkDone(ok) ==
    /\ successCount' = successCount + (IF ok THEN LoaderChunkEnd(li, total) - li ELSE 0)
    /\ errorCount' = errorCount + (IF ok THEN 0 ELSE LoaderChunkEnd(li, total) - li)
    /\ chunkResults' = Append(chunkResults, IF ok THEN "ok" ELSE "failed")
    /\ li' = LoaderNextChunk(li)
    /\ lpc' = "loopHead"

LoaderSleepsAfterLast(a, m) == a <= m

\* if attempt < maxRetries { ... select ... }
LoaderSleepsAfter(a, m) == a < m

\* BulkIndexEvents returned to indexBatchWithRetry: nil ends the chunk as
\* indexed; an error is kept, and either the backoff begins or the attempts
\* are used up and the chunk has failed
LoaderAttemptReturns ==
    /\ entry = "Bootstrap"
    /\ lpc = "inBulk"
    /\ mpc = "returned"
    /\ mpc' = "idle"
    /\ bLo' = 0
    /\ bHi' = 0
    /\ bi' = 0
    /\ bulkResult' = "none"
    /\ bulkChunkLog' = <<>>
    /\ ctxDone' = callerCtxDone
    /\ IF bulkResult = "nil"
       THEN /\ ChunkDone(TRUE)
            /\ UNCHANGED <<lAttempt, lLastErr>>
       ELSE /\ lLastErr' = bulkResult
            /\ IF LoaderSleepsAfter(lAttempt, loaderMaxRetries)
               THEN /\ lpc' = "lBackoff"
                    /\ UNCHANGED <<li, successCount, errorCount, lAttempt, chunkResults>>
               ELSE /\ ChunkDone(FALSE)
                    /\ UNCHANGED lAttempt
    /\ UNCHANGED <<bootResult, chunkLog, chunkFailures>>
    /\ UNCHANGED <<syncStatus, bulkSubmits, indexWritten, indexRead>>
    /\ UNCHANGED <<maxRetries, attempt, lastErr, rpc, retryResult, opResults,
                   sleeps, ctxDoneAtEntry, cancelledInSleep>>
    /\ UNCHANGED <<cbrVars, loaders, requestLog, conVars, storeVars>>

\* select { case <-ctx.Done(): return ctx.Err(); case <-time.After(backoff): }
LoaderBackoffElapsed ==
    /\ lpc = "lBackoff"
    /\ ~callerCtxDone
    /\ lAttempt' = lAttempt + 1
    /\ lpc' = "attempt"
    /\ UNCHANGED <<li, successCount, errorCount, lLastErr, bootResult>>
    /\ UNCHANGED <<retryVars, cbrVars, loaders, requestLog, conVars, storeVars, bulkVars, histVars, auditVars>>

\* the caller's context is done during the loader's backoff: indexBatchWithRetry
\* returns ctx.Err(), which the chunk loop counts as a failed chunk
LoaderBackoffCancelled ==
    /\ lpc = "lBackoff"
    /\ callerCtxDone
    /\ ChunkDone(FALSE)
    /\ UNCHANGED <<lAttempt, lLastErr, bootResult>>
    /\ UNCHANGED <<syncStatus, bulkSubmits, indexWritten, indexRead>>
    /\ UNCHANGED <<retryVars, cbrVars, loaders, requestLog, conVars, storeVars, bulkVars, histVars>>

\* the call under way has not returned
Running ==
    \/ entry \in {"Bootstrap", "ForceSync", "CheckSyncStatus"} /\ lpc # "done"
    \/ entry = "BulkIndexEvents" /\ mpc # "done"

\* the caller cancels its context; every context derived from it is done too
CallerCancel ==
    /\ Running
    /\ ~callerCtxDone
    /\ callerCtxDone' = TRUE
    /\ cancelledAt' = lpc
    /\ ctxDone' = TRUE
    /\ cancelledInSleep' = (cancelledInSleep \/ rpc = "backoff")
    /\ UNCHANGED <<maxRetries, attempt, lastErr, rpc, retryResult, opResults,
                   sleeps, ctxDoneAtEntry>>
    /\ UNCHANGED <<entry, total, invalidIds, rejectedIds, index, index0>>
    /\ UNCHANGED <<cbrVars, loaders, requestLog, conVars, loaderVars, bulkVars, histVars, auditVars>>

\* the 30s of the loader's retryCtx run out while BulkIndex is at work
RetryCtxTimeout ==
    /\ entry = "Bootstrap"
    /\ lpc = "inBulk"
    /\ mpc = "inner"
    /\ rpc \in {"call", "backoff"}
    /\ ~ctxDone
    /\ ctxDone' = TRUE
    /\ cancelledInSleep' = (cancelledInSleep \/ rpc = "backoff")
    /\ UNCHANGED <<maxRetries, attempt, lastErr, rpc, retryResult, opResults,
                   sleeps, ctxDoneAtEntry>>
    /\ UNCHANGED <<cbrVars, loaders, requestLog, conVars, syncVars>>

(***************************************************************************)
(* Loader.ForceSyncData, Service.RecreateIndex                             *)
(***************************************************************************)
\* Indices.Delete.WithContext(ctx) and Indices.Create.WithContext(ctx) do not
\* call the API: WithContext is the option constructor of the API function
\* type, so each expression yields a request option, a function value that
\* is never nil, and no request is sent
RequestOptionIsNil == FALSE

\* Service.RecreateIndex: "if err := ...WithContext(ctx); err != nil" holds at
\* the delete, where it is only logged, and at the create, where it returns
\* "failed to create index after recreation"; the index is left as it was
RecreateIndex(idx) ==
    [index |-> idx,
     err |-> IF RequestOptionIsNil THEN "nil" ELSE "createErr"]

GetEventsErrIgnored(ok) == FALSE

\* if err != nil { return fmt.Errorf("failed to get events from PostgreSQL") }
GetEventsFailed(ok) == ~ok

\* events, err := l.storer.GetEvents(ctx) of ForceSyncData
ForceSyncGetEvents ==
    /\ entry = "ForceSync"
    /\ lpc = "getEvents"
    /\ \E ok \in (IF callerCtxDone THEN {FALSE} ELSE BOOLEAN) :
         IF GetEventsFailed(ok)
         THEN /\ lpc' = "done"
              /\ bootResult' = "storeErr"
         ELSE /\ lpc' = "recreate"
              /\ UNCHANGED bootResult
    /\ UNCHANGED <<li, successCount, errorCount, lAttempt, lLastErr>>
    /\ UNCHANGED <<retryVars, cbrVars, loaders, requestLog, conVars, storeVars, bulkVars, histVars, auditVars>>

\* l.osService.RecreateIndex(ctx), then "if len(events) == 0 { return nil }"
\* and the chunk loop; RecreateIndex always returns its error, so the lines
\* after it (loader.go 207-229) are never reached
ForceSyncRecreateIndex ==
    /\ entry = "ForceSync"
    /\ lpc = "recreate"
    /\ LET r == RecreateIndex(index)
       IN /\ index' = r.index
          /\ IF r.err # "nil"
             THEN /\ lpc' = "done"
                  /\ bootResult' = "recreateErr"
             ELSE IF total = 0
             THEN /\ lpc' = "done"
                  /\ bootResult' = "nil"
             ELSE /\ lpc' = "forceLoop"
                  /\ UNCHANGED bootResult
    /\ UNCHANGED <<entry, total, invalidIds, rejectedIds, index0, callerCtxDone,
                   cancelledAt>>
    /\ UNCHANGED <<li, successCount, errorCount, lAttempt, lLastErr>>
    /\ UNCHANGED <<retryVars, cbrVars, loaders, requestLog, conVars, bulkVars, histVars, auditVars>>

(***************************************************************************)
(* Loader.CheckSyncStatus                                                  *)
(***************************************************************************)
SyncDifferenceReversed(pgCount, osCount) == osCount - pgCount

\* Difference: pgCount - osCount
SyncDifference(pgCount, osCount) == pgCount - osCount

\* status := &SyncStatus{...}
SyncStatusOf(pgCount, osCount) ==
    [PostgreSQLCount |-> pgCount,
     OpenSearchCount |-> osCount,
     InSync |-> (pgCount = osCount),
     Difference |-> SyncDifference(pgCount, osCount),
     returned |-> TRUE]

\* pgEvents, err := l.storer.GetEvents(ctx)
CheckSyncStatusGetEvents ==
    /\ entry = "CheckSyncStatus"
    /\ lpc = "getEvents"
    /\ \E ok \in (IF callerCtxDone THEN {FALSE} ELSE BOOLEAN) :
         IF ok THEN /\ lpc' = "count"
                    /\ UNCHANGED bootResult
         ELSE /\ lpc' = "done"
              /\ bootResult' = "storeErr"
    /\ UNCHANGED <<li, successCount, errorCount, lAttempt, lLastErr>>
    /\ UNCHANGED <<retryVars, cbrVars, loaders, requestLog, conVars, storeVars, bulkVars, histVars, auditVars>>

\* SearchEvents with pagination (0, 0) and track_total_hits: osResult.Total is
\* the number of documents in the index; then the status is built
CheckSyncStatusSearch ==
    /\ entry = "CheckSyncStatus"
    /\ lpc = "count"
    /\ lpc' = "done"
    /\ indexRead' = TRUE
    /\ \E ok \in (IF callerCtxDone THEN {FALSE} ELSE BOOLEAN) :
         IF ok THEN /\ syncStatus' = SyncStatusOf(total, Cardinality(index))
                    /\ bootResult' = "nil"
         ELSE /\ bootResult' = "searchErr"
              /\ UNCHANGED syncStatus
    /\ UNCHANGED <<chunkResults, bulkSubmits, indexWritten>>
    /\ UNCHANGED <<li, successCount, errorCount, lAttempt, lLastErr>>
    /\ UNCHANGED <<retryVars, cbrVars, loaders, requestLog, conVars, storeVars, bulkVars, histVars>>

InitSync ==
    /\ entry \in {"Bootstrap", "ForceSync", "CheckSyncStatus", "BulkIndexEvents"}
    /\ total \in RecordSetSizes
    /\ invalidIds \in {{}, {2}, {batchSize + 1}}
    /\ rejectedIds \in {{}, {1}, {1, 2}}
    /\ invalidIds = {} \/ rejectedIds = {}
    /\ index \in {{}, {1}, {OrphanId}}
    /\ index0 = index
    /\ callerCtxDone = FALSE
    /\ cancelledAt = "none"
    /\ lpc = (IF entry = "BulkIndexEvents" THEN "idle" ELSE "getEvents")
    /\ li = 0
    /\ successCount = 0
    /\ errorCount = 0
    /\ lAttempt = 1
    /\ lLastErr = "nil"
    /\ bootResult = "none"
    /\ mpc = (IF entry = "BulkIndexEvents" THEN "validate" ELSE "idle")
    /\ bLo = 0
    /\ bHi = (IF entry = "BulkIndexEvents" THEN total ELSE 0)
    /\ bi = 0
    /\ bulkResult = "none"
    /\ chunkLog = <<>>
    /\ bulkChunkLog = <<>>
    /\ chunkFailures = 0
    /\ syncStatus = NoStatus
    /\ chunkResults = <<>>
    /\ bulkSubmits = 0
    /\ indexWritten = FALSE
    /\ indexRead = FALSE
    /\ RetryIdle
    /\ CbrIdle
    /\ ConIdle
    /\ requestLog = {}
    /\ loaders = [p \in Loaders |-> LoaderAtEntry]

NextSync ==
    \/ GetEvents
    \/ ProbeIndex
    \/ LoaderLoopHead
    \/ LoaderAttempt
    \/ LoaderAttemptReturns
    \/ LoaderBackoffElapsed
    \/ LoaderBackoffCancelled
    \/ BulkIndexEventsValidate
    \/ BulkIndexLoopHead
    \/ ExecuteBulkRequest
    \/ BulkBackoffElapsed
    \/ BulkBackoffCancelled
    \/ ProcessBatchReturns
    \/ BulkIndexEventsReturns
    \/ ForceSyncGetEvents
    \/ ForceSyncRecreateIndex
    \/ CheckSyncStatusGetEvents
    \/ CheckSyncStatusSearch
    \/ CallerCancel
    \/ RetryCtxTimeout

SpecSync == InitSync /\ [][NextSync]_vars

(***************************************************************************)
(* Claims about chunking, BulkIndexEvents and Bootstrap                    *)
(***************************************************************************)
\* the chunks <<i, end>> of log follow one another from offset 0, each holds
\* between 1 and size items, and none reaches beyond n
IsOrderedPrefix(log, n, size) ==
    \A k \in 1..Len(log) :
        /\ log[k][1] = (IF k = 1 THEN 0 ELSE log[k - 1][2])
        /\ log[k][2] - log[k][1] \in 1..size
        /\ log[k][2] <= n

\* ceil(n / size)
CeilDiv(n, size) == (n + size - 1) \div size

\* the chunks of log partition the n items in their order, and there are
\* ceil(n / size) of them
IsOrderedPartition(log, n, size) ==
    /\ IsOrderedPrefix(log, n, size)
    /\ Len(log) = CeilDiv(n, size)
    /\ (n > 0 => Len(log) > 0 /\ log[Len(log)][2] = n)

\* Bootstrap has returned after going on to index from an empty index
BootstrapIndexedFromEmpty ==
    /\ entry = "Bootstrap"
    /\ lpc = "done"
    /\ bootResult # "storeErr"
    /\ index0 = {}

\* C8 as stated, for calls whose context is not cancelled: for every
\* record-set size, Bootstrap on an empty index and BulkIndex take up
\* consecutive chunks of at most 100 items, in the input's order, and process
\* exactly ceil(M/100) chunks.
C8_ChunksPartitionInput ==
    /\ BootstrapIndexedFromEmpty => IsOrderedPartition(chunkLog, total, batchSize)
    /\ (/\ entry = "BulkIndexEvents"
        /\ mpc = "done"
        /\ bulkResult # "validationErr"
        /\ ~callerCtxDone)
          => IsOrderedPartition(bulkChunkLog, total, maxBatchSize)

\* C8 as amended: the chunks taken up are always consecutive chunks of at
\* most 100 items in the input's order; Bootstrap on an empty index processes
\* exactly ceil(M/100) of them; BulkIndex processes exactly ceil(M/100) when
\* it returns nil, and when a chunk fails after its retries it returns at
\* that chunk, leaving the later chunks unprocessed.
C8_ChunksPartitionInputUnlessBulkIndexFails ==
    /\ IsOrderedPrefix(chunkLog, total, batchSize)
    /\ IsOrderedPrefix(bulkChunkLog, bHi - bLo, maxBatchSize)
    /\ BootstrapIndexedFromEmpty => IsOrderedPartition(chunkLog, total, batchSize)
    /\ (mpc \in {"returned", "done"} /\ bulkResult = "nil")
          => IsOrderedPartition(bulkChunkLog, bHi - bLo, maxBatchSize)
    /\ (mpc \in {"returned", "done"} /\ bulkResult = "batchErr")
          => /\ Len(bulkChunkLog) >= 1
             /\ Len(bulkChunkLog) <= CeilDiv(bHi - bLo, maxBatchSize)
             /\ bulkChunkLog[Len(bulkChunkLog)][1] = bi

C8_Witness ==
    /\ entry = "BulkIndexEvents"
    /\ mpc = "done"
    /\ total = 2 * maxBatchSize + 1
    /\ bulkResult = "batchErr"
    /\ Len(bulkChunkLog) = 2

\* the documents of the record set that pass validation and that the index accepts
Acceptable == 1..total \ (invalidIds \cup rejectedIds)

\* C9: a batch given to BulkIndexEvents that holds at least one acceptable
\* document besides invalid or rejected ones gets its acceptable documents
\* written, and the call does not fail (no request failing as a whole, no
\* cancellation).
C9_BadDocumentsDoNotBlockBatch ==
    (/\ entry = "BulkIndexEvents"
     /\ mpc = "done"
     /\ ~callerCtxDone
     /\ chunkFailures = 0
     /\ Acceptable # {}
     /\ Acceptable # 1..total)
        => (bulkResult = "nil" /\ Acceptable \subseteq index)

\* C10: Bootstrap from an empty index over a non-empty record set, with no
\* document invalid or rejected, no cancellation, and fewer whole-request
\* failures per chunk than the retry limit, leaves exactly the record ids in
\* the index.
C10_BootstrapIndexesEveryRecord ==
    (/\ BootstrapIndexedFromEmpty
     /\ total > 0
     /\ 1..total \cap (invalidIds \cup rejectedIds) = {}
     /\ ~callerCtxDone
     /\ chunkFailures < loaderMaxRetries)
        => (index = 1..total /\ Cardinality(index) = total)

C10_Witness ==
    /\ BootstrapIndexedFromEmpty
    /\ total = 2 * batchSize + 1
    /\ invalidIds = {}
    /\ rejectedIds = {}
    /\ ~callerCtxDone
    /\ chunkFailures = loaderMaxRetries - 1
    /\ index = 1..total

(***************************************************************************)
(* Claims about Bootstrap, CheckSyncStatus and ForceSync                   *)
(***************************************************************************)
\* C11: in every execution where the index holds at least one document when
\* Bootstrap probes it (and the caller does not cancel), Bootstrap sends no
\* index write and returns success.
C11_PopulatedIndexIsNeverWritten ==
    (entry = "Bootstrap" /\ indexRead /\ index0 # {} /\ ~callerCtxDone)
        => (~indexWritten /\ (lpc = "done" => bootResult = "nil"))

\* C12: when the record store returns an empty record set, Bootstrap returns
\* success, and it has sent no search and no bulk request to the index.
C12_EmptyRecordSetIsNoOp ==
    (entry = "Bootstrap" /\ lpc = "done" /\ total = 0 /\ bootResult # "storeErr")
        => /\ bootResult = "nil"
           /\ ~indexRead
           /\ ~indexWritten
           /\ index = index0
           /\ chunkLog = <<>>

C12_Witness ==
    /\ entry = "Bootstrap"
    /\ lpc = "done"
    /\ total = 0
    /\ bootResult = "nil"
    /\ index0 = {OrphanId}
    /\ ~indexRead

\* the number of records in the chunks of the loader loop that ended as r
RECURSIVE RecordsOfChunks(_, _)
RecordsOfChunks(k, r) ==
    IF k = 0 THEN 0
    ELSE RecordsOfChunks(k - 1, r)
         + (IF chunkResults[k] = r THEN chunkLog[k][2] - chunkLog[k][1] ELSE 0)

\* C13: a chunk of Bootstrap that fails after its retries does not end the
\* run: when Bootstrap returns from the chunk loop, every chunk of the record
\* set has been taken up in order, each has ended as indexed or as failed,
\* and errorCount holds the records of the failed chunks.
C13_FailedChunkDoesNotAbort ==
    /\ Len(chunkResults) <= Len(chunkLog)
    /\ (entry = "Bootstrap" /\ lpc = "done" /\ chunkLog # <<>>)
          => /\ IsOrderedPartition(chunkLog, total, batchSize)
             /\ Len(chunkResults) = Len(chunkLog)
             /\ errorCount = RecordsOfChunks(Len(chunkLog), "failed")
             /\ successCount = RecordsOfChunks(Len(chunkLog), "ok")

C13_Witness ==
    /\ entry = "Bootstrap"
    /\ lpc = "done"
    /\ ~callerCtxDone
    /\ Len(chunkResults) = 3
    /\ chunkResults[1] = "failed"
    /\ chunkResults[2] = "ok"
    /\ errorCount = batchSize

\* C14: when Bootstrap goes on to index, it returns an error if and only if
\* no chunk succeeded; with at least one chunk indexed it returns nil, also
\* when other chunks failed.
C14_ErrorIffNoChunkSucceeded ==
    (entry = "Bootstrap" /\ lpc = "done" /\ chunkLog # <<>>)
        => /\ bootResult \in {"nil", "noneIndexed"}
           /\ bootResult = "noneIndexed"
                <=> (\A k \in 1..Len(chunkResults) : chunkResults[k] = "failed")

C14_Witness ==
    /\ entry = "Bootstrap"
    /\ lpc = "done"
    /\ bootResult = "nil"
    /\ \E k \in 1..Len(chunkResults) : chunkResults[k] = "failed"
    /\ \E k \in 1..Len(chunkResults) : chunkResults[k] = "ok"

\* C15 as stated: during one Bootstrap run the bulk request of any single
\* chunk is sent to the index at most 3 times.
C15_ChunkSubmittedAtMostThreeTimes ==
    entry = "Bootstrap" => bulkSubmits <= loaderMaxRetries

\* C15 as amended: the loader hands a chunk to BulkIndexEvents at most 3
\* times, and each of these calls sends the chunk's bulk request at most 3
\* times through ExecuteWithRetry: at most 9 bulk requests per chunk.
C15_ChunkSubmittedAtMostNineTimes ==
    /\ entry = "Bootstrap"
          => /\ lAttempt <= loaderMaxRetries
             /\ bulkSubmits <= loaderMaxRetries * DefaultMaxRetries
    /\ entry = "BulkIndexEvents" => bulkSubmits <= DefaultMaxRetries

C15_Witness ==
    /\ entry = "Bootstrap"
    /\ ~callerCtxDone
    /\ lAttempt = loaderMaxRetries
    /\ bulkSubmits = loaderMaxRetries * DefaultMaxRetries

\* C16: CheckSyncStatus leaves the record store and the index as they are,
\* and the status it returns holds the number of records, the total the
\* index reports, InSync iff the two are equal, and Difference = records
\* minus index total.
C16_SyncStatusReportsCounts ==
    /\ [](entry = "CheckSyncStatus"
            => /\ index = index0
               /\ ~indexWritten
               /\ (lpc = "done" /\ bootResult = "nil")
                     => /\ syncStatus.returned
                        /\ syncStatus.PostgreSQLCount = total
                        /\ syncStatus.OpenSearchCount = Cardinality(index)
                        /\ syncStatus.InSync <=> (total = Cardinality(index))
                        /\ syncStatus.Difference = total - Cardinality(index))
    /\ [][entry = "CheckSyncStatus" => (total' = total /\ index' = index)]_vars

C16_Witness ==
    /\ entry = "CheckSyncStatus"
    /\ lpc = "done"
    /\ bootResult = "nil"
    /\ total = batchSize + 1
    /\ index = {1}
    /\ syncStatus.Difference = batchSize
    /\ ~syncStatus.InSync

\* C17: when the record store and the index respond without failure (and the
\* caller does not cancel), ForceSync returns success and leaves in the index
\* exactly one document per record and no document of any other id.
C17_ForceSyncRebuildsIndex ==
    (entry = "ForceSync" /\ lpc = "done" /\ bootResult # "storeErr" /\ ~callerCtxDone)
        => (bootResult = "nil" /\ index = 1..total)

(***************************************************************************)
(* consistency.Manager: the two stores                                     *)
(***************************************************************************)
Ids == 1..MaxIds

\* the fields compareEvent compares, in its order
CompareFields ==
    <<"name", "description", "category_id", "date", "time", "location",
      "price", "source">>

FieldSet == {CompareFields[k] : k \in 1..Len(CompareFields)}

\* Field values are numbers: a text field holds the code of its string,
\* category_id its number, price its amount in thousandths.
BaseValue(f) == IF f = "price" THEN 10000 ELSE 1

AltValue(f) == IF f = "price" THEN 12000 ELSE 2

\* a price that differs from the base price by less than half a cent
NearBasePrice == BaseValue("price") + 4

\* the fields of an event and of a document in the model
DocFields == FieldSet \cup {"id", "created_at"}

\* the code of the empty string, and of the zero time.Time
BlankText == 0

ZeroTime == 0

\* the event of the record store with this id
BaseEvent(id) ==
    [f \in DocFields |-> IF f = "id" THEN id ELSE BaseValue(f)]

\* an event whose CreatedAt is not set
InvalidEvent(id) == [BaseEvent(id) EXCEPT !["created_at"] = ZeroTime]

\* NewEventDocumentFromDB copies every compared field; a document that has
\* drifted differs from its event in the fields of F
DriftedDocument(id, F) ==
    [f \in DocFields |->
        IF f = "id" THEN id ELSE IF f \in F THEN AltValue(f) ELSE BaseValue(f)]

\* every drift of a single document, and the price that differs in the
\* third decimal only
SingleDocumentVariants(id) ==
    {DriftedDocument(id, F) : F \in SUBSET FieldSet}
        \cup {[DriftedDocument(id, {}) EXCEPT !["price"] = NearBasePrice]}

\* the ids of S in ascending order
RECURSIVE Ascending(_)
Ascending(S) ==
    IF S = {} THEN <<>>
    ELSE LET least == CHOOSE x \in S : \A y \in S : x <= y
         IN <<least>> \o Ascending(S \ {least})

Reversed(q) == [k \in 1..Len(q) |-> q[Len(q) + 1 - k]]

\* "for id := range m" visits the keys of a map in an order that is not
\* fixed: two of the orders, ascending and descending
RangeOrders(S) == {Ascending(S), Reversed(Ascending(S))}

SeqRange(q) == {q[k] : k \in 1..Len(q)}

\* the hits a search of the whole index returns: all documents when they fit
\* in the page, otherwise size of them
SearchPage(docIds, size) ==
    IF Cardinality(docIds) <= size THEN {docIds}
    ELSE {H \in SUBSET docIds : Cardinality(H) = size}

(***************************************************************************)
(* Manager.compareEvent                                                    *)
(***************************************************************************)
\* fmt.Sprintf("%.2f", price): the amount in hundredths
FormatPrice(p) == (p + 5) \div 10

\* DBValue / ESValue of a mismatch: the string itself, "%d" of the category,
\* "%.2f" of the price
Render(f, v) == IF f = "price" THEN FormatPrice(v) ELSE v

\* if dbEvent.X != esDoc.X
FieldDiffers(a, b) == a # b

EventMismatch(ev, doc, f) ==
    [EventID |-> ev["id"], Field |-> f,
     DBValue |-> Render(f, ev[f]), ESValue |-> Render(f, doc[f])]

RECURSIVE CompareFrom(_, _, _)
CompareFrom(k, ev, doc) ==
    IF k > Len(CompareFields) THEN <<>>
    ELSE (IF FieldDiffers(ev[CompareFields[k]], doc[CompareFields[k]])
          THEN <<EventMismatch(ev, doc, CompareFields[k])>> ELSE <<>>)
         \o CompareFrom(k + 1, ev, doc)

compareEventFirstOnly(ev, doc) ==
    IF CompareFrom(1, ev, doc) = <<>> THEN <<>>
    ELSE <<Head(CompareFrom(1, ev, doc))>>

\* compareEvent: one EventMismatch per field that differs, in field order
compareEvent(ev, doc) == CompareFrom(1, ev, doc)

(***************************************************************************)
(* Manager.CheckConsistency, Manager.CheckEventConsistency                 *)
(***************************************************************************)
\* result := &CheckResult{Timestamp: start, IsConsistent: true}
NewResult(start) ==
    [NoResult EXCEPT !.IsConsistent = TRUE, !.Timestamp = start, !.isNil = FALSE]

MissingFromSwapped(a, b) == {id \in b : id \notin a}

\* for id := range a { if _, exists := b[id]; !exists { append } }
MissingFrom(a, b) == {id \in a : id \notin b}

MarkInconsistentNever(flag, appended) == flag

\* result.IsConsistent = false, next to every append to one of the lists
MarkInconsistent(flag, appended) == IF appended # <<>> THEN FALSE ELSE flag

\* the mismatches of the ids in order, each id's in field order
RECURSIVE MismatchesOf(_, _, _)
MismatchesOf(order, evs, docs) ==
    IF order = <<>> THEN <<>>
    ELSE compareEvent(evs[Head(order)], docs[Head(order)])
         \o MismatchesOf(Tail(order), evs, docs)

CacheNeverExpires(t) == ~lastCheck.isNil

\* getCachedResult: nil when nothing is cached or the TTL has run out
CacheIsFresh(t) ==
    /\ ~lastCheck.isNil
    /\ ~(t - lastCheckTime > checkCacheTTL)

\* the call has returned: its locals are gone
CallIdle == kpc \in {"idle", "done"}

setCachedResultDrops(result, t) == [lastCheck |-> NoResult, lastCheckTime |-> t]

\* setCachedResult: m.lastCheck = result; m.lastCheckTime = time.Now()
setCachedResult(result, t) == [lastCheck |-> result, lastCheckTime |-> t]

\* a call of CheckConsistency or CheckEventConsistency begins: the locals and
\* the history of the repair before it are gone, and so is its context
RepairForgotten ==
    /\ repairResult' = "none"
    /\ ri' = 1
    /\ repairErrors' = 0
    /\ processedEvents' = {}
    /\ rEvent' = <<>>
    /\ rAttempts' = {}
    /\ rFailures' = 0
    /\ rIndexRequests' = 0
    /\ rDeleteRequests' = 0
    /\ rWritten' = {}
    /\ rFetchFailed' = {}
    /\ rAfterCancel' = 0
    /\ requestLog' = {}
    /\ ctxDone' = FALSE
    /\ UNCHANGED <<maxRetries, attempt, lastErr, rpc, retryResult, opResults,
                   sleeps, ctxDoneAtEntry, cancelledInSleep>>

\* CheckConsistency up to the record-store read: the cached result is
\* returned while it is fresh, otherwise a new result is begun
CheckConsistencyBegin ==
    /\ CallIdle
    /\ kcall' = "CheckConsistency"
    /\ kid' = 0
    /\ dbSnap' = <<>>
    /\ kReads' = {}
    /\ kStart' = now
    /\ kDbErr' = "none"
    /\ kIndexErr' = FALSE
    /\ IF CacheIsFresh(now)
       THEN /\ checkResult' = lastCheck
            /\ checkErr' = "nil"
            /\ fromCache' = TRUE
            /\ kpc' = "done"
       ELSE /\ checkResult' = NewResult(now)
            /\ checkErr' = "none"
            /\ fromCache' = FALSE
            /\ kpc' = "readDb"
    /\ RepairForgotten
    /\ UNCHANGED <<dbEvents, osDocs, now, lastCheck, lastCheckTime>>
    /\ UNCHANGED <<cbrVars, loaders, syncVars, lockVars>>

\* dbEvents, err := m.store.GetEvents(ctx)
CheckConsistencyReadDb ==
    /\ kcall = "CheckConsistency"
    /\ kpc = "readDb"
    /\ kReads' = kReads \cup {"db"}
    /\ \E ok \in BOOLEAN :
         IF ok
         THEN /\ dbSnap' = dbEvents
              /\ checkResult' =
                    [checkResult EXCEPT !.TotalEventsDB = Cardinality(DOMAIN dbEvents)]
              /\ kpc' = "readIndex"
              /\ UNCHANGED checkErr
         ELSE /\ checkResult' = NoResult
              /\ checkErr' = "dbErr"
              /\ kpc' = "done"
              /\ UNCHANGED dbSnap
    /\ UNCHANGED <<dbEvents, osDocs, now, kcall, kid, fromCache,
                   lastCheck, lastCheckTime, kStart, kDbErr, kIndexErr, repVars>>
    /\ UNCHANGED <<retryVars, cbrVars, loaders, requestLog, syncVars, lockVars>>

\* the index search with page size 10000, the two maps, the three loops over
\* them, and setCachedResult
CheckConsistencyReadIndex ==
    /\ kcall = "CheckConsistency"
    /\ kpc = "readIndex"
    /\ kpc' = "done"
    /\ kReads' = kReads \cup {"index"}
    /\ \/ /\ checkResult' = NoResult
          /\ checkErr' = "searchErr"
          /\ kIndexErr' = TRUE
          /\ UNCHANGED <<lastCheck, lastCheckTime>>
       \/ \E hits \in SearchPage(DOMAIN osDocs, pageCap) :
          \E inEs \in RangeOrders(MissingFrom(DOMAIN dbSnap, hits)) :
          \E inDb \in RangeOrders(MissingFrom(hits, DOMAIN dbSnap)) :
          \E both \in RangeOrders(DOMAIN dbSnap \cap hits) :
            LET mism == MismatchesOf(both, dbSnap, osDocs)
                flag == MarkInconsistent(
                            MarkInconsistent(
                                MarkInconsistent(checkResult.IsConsistent, inEs),
                                inDb),
                            mism)
                result == [checkResult EXCEPT
                              !.TotalEventsES = Cardinality(DOMAIN osDocs),
                              !.MissingInES = inEs,
                              !.MissingInDB = inDb,
                              !.Mismatches = mism,
                              !.IsConsistent = flag]
            IN /\ checkResult' = result
               /\ checkErr' = "nil"
               /\ lastCheck' = setCachedResult(result, now).lastCheck
               /\ lastCheckTime' = setCachedResult(result, now).lastCheckTime
               /\ UNCHANGED kIndexErr
    /\ UNCHANGED <<dbEvents, osDocs, now, kcall, kid, dbSnap, fromCache,
                   kStart, kDbErr, repVars>>
    /\ UNCHANGED <<retryVars, cbrVars, loaders, requestLog, syncVars, lockVars>>

CheckEventStartFromCache(t) == IF CacheIsFresh(t) THEN lastCheck ELSE NewResult(t)

\* start := time.Now(); result := &CheckResult{Timestamp: start, ...}: the
\* first statements of CheckEventConsistency
CheckEventStart(t) == NewResult(t)

\* the ids CheckEventConsistency is called with: those either store holds,
\* and one that neither holds
ProbedIds == DOMAIN dbEvents \cup DOMAIN osDocs \cup {MaxIds + 1}

\* CheckEventConsistency begins: a new result, no look at the cache
CheckEventConsistencyBegin ==
    /\ CallIdle
    /\ kcall' = "CheckEventConsistency"
    /\ \E id \in ProbedIds : kid' = id
    /\ dbSnap' = <<>>
    /\ kReads' = {}
    /\ kStart' = now
    /\ kDbErr' = "none"
    /\ kIndexErr' = FALSE
    /\ checkResult' = CheckEventStart(now)
    /\ checkErr' = "none"
    /\ fromCache' = FALSE
    /\ kpc' = "readDb"
    /\ RepairForgotten
    /\ UNCHANGED <<dbEvents, osDocs, now, lastCheck, lastCheckTime>>
    /\ UNCHANGED <<cbrVars, loaders, syncVars, lockVars>>

\* GetEventByID: the event, "event with ID %d not found" for pgx.ErrNoRows,
\* "failed to get event by ID" for any other failure of the query
GetEventByIDOutcomes(id, done) ==
    IF done THEN {"ioErr"}
    ELSE IF id \in DOMAIN dbEvents THEN {"nil", "ioErr"}
    ELSE {"notFound", "ioErr"}

\* dbEvent, err := m.store.GetEventByID(ctx, eventID); if err != nil { ... }
CheckEventReadDb ==
    /\ kcall = "CheckEventConsistency"
    /\ kpc = "readDb"
    /\ kReads' = kReads \cup {"db"}
    /\ \E out \in GetEventByIDOutcomes(kid, FALSE) :
         /\ kDbErr' = out
         /\ IF out = "nil"
            THEN /\ dbSnap' = [id \in {kid} |-> dbEvents[id]]
                 /\ checkResult' = [checkResult EXCEPT !.TotalEventsDB = 1]
                 /\ kpc' = "readIndex"
            ELSE /\ kpc' = "readIndexNoRecord"
                 /\ UNCHANGED <<dbSnap, checkResult>>
    /\ UNCHANGED <<dbEvents, osDocs, now, kcall, kid, checkErr, fromCache,
                   lastCheck, lastCheckTime, kStart, kIndexErr, repVars>>
    /\ UNCHANGED <<retryVars, cbrVars, loaders, requestLog, syncVars, lockVars>>

\* the documents a search for the text "id:<eventID>" finds: the query is a
\* full-text query over name, description and location, so the documents it
\* matches are those whose text matches, whatever their ids
TextHits == SUBSET DOMAIN osDocs

\* the branch "err != nil" of CheckEventConsistency: the index is searched,
\* a failed search is taken as no hit, and the result is returned with nil
CheckEventSearchNoRecord ==
    /\ kcall = "CheckEventConsistency"
    /\ kpc = "readIndexNoRecord"
    /\ kpc' = "done"
    /\ checkErr' = "nil"
    /\ kReads' = kReads \cup {"index"}
    /\ \E ok \in BOOLEAN : \E hits \in TextHits :
         /\ kIndexErr' = ~ok
         /\ IF ok /\ Cardinality(hits) > 0
            THEN checkResult' =
                    [checkResult EXCEPT
                        !.MissingInDB = <<kid>>,
                        !.IsConsistent = MarkInconsistent(checkResult.IsConsistent, <<kid>>),
                        !.TotalEventsES = 1]
            ELSE UNCHANGED checkResult
    /\ UNCHANGED <<dbEvents, osDocs, now, kcall, kid, dbSnap, fromCache,
                   lastCheck, lastCheckTime, kStart, kDbErr, repVars>>
    /\ UNCHANGED <<retryVars, cbrVars, loaders, requestLog, syncVars, lockVars>>

\* the record was read: the index is searched with page size 1 and the
\* record is compared with esResult.Events[0]
CheckEventSearch ==
    /\ kcall = "CheckEventConsistency"
    /\ kpc = "readIndex"
    /\ kpc' = "done"
    /\ kReads' = kReads \cup {"index"}
    /\ \/ /\ checkResult' = NoResult
          /\ checkErr' = "searchErr"
          /\ kIndexErr' = TRUE
       \/ /\ checkErr' = "nil"
          /\ UNCHANGED kIndexErr
          /\ \E hits \in TextHits :
               IF Cardinality(hits) = 0
               THEN checkResult' =
                       [checkResult EXCEPT
                           !.MissingInES = <<kid>>,
                           !.IsConsistent =
                               MarkInconsistent(checkResult.IsConsistent, <<kid>>)]
               ELSE \E top \in hits :
                      LET mism == compareEvent(dbSnap[kid], osDocs[top])
                      IN checkResult' =
                            [checkResult EXCEPT
                                !.TotalEventsES = 1,
                                !.Mismatches = mism,
                                !.IsConsistent =
                                    MarkInconsistent(checkResult.IsConsistent, mism)]
    /\ UNCHANGED <<dbEvents, osDocs, now, kcall, kid, dbSnap, fromCache,
                   lastCheck, lastCheckTime, kStart, kDbErr, repVars>>
    /\ UNCHANGED <<retryVars, cbrVars, loaders, requestLog, syncVars, lockVars>>

\* a minute passes; RepairInconsistencies does not read the clock, so the
\* minutes that pass during a repair are taken to pass at its end
ClockTick ==
    /\ now < MaxTime
    /\ kcall = "RepairInconsistencies" => kpc = "done"
    /\ now' = now + 1
    /\ UNCHANGED <<dbEvents, osDocs, kcall, kid, kpc, dbSnap, checkResult,
                   checkErr, fromCache, lastCheck, lastCheckTime, kAudit, repVars>>
    /\ UNCHANGED <<retryVars, cbrVars, loaders, requestLog, syncVars, lockVars>>

\* the id sets of the index: runs of consecutive ids
IdRuns == {lo..hi : lo \in 1..(MaxIds + 1), hi \in 0..MaxIds}

\* the id sets of the record store: the runs that begin at 1
IdPrefixes == {1..hi : hi \in 0..MaxIds}

\* no call of the Manager has begun, nothing is cached
ManagerIdle ==
    /\ now = 0
    /\ kcall = "none"
    /\ kid = 0
    /\ kpc = "idle"
    /\ dbSnap = <<>>
    /\ checkResult = NoResult
    /\ checkErr = "none"
    /\ fromCache = FALSE
    /\ lastCheck = NoResult
    /\ lastCheckTime = 0
    /\ kReads = {}
    /\ kStart = 0
    /\ kDbErr = "none"
    /\ kIndexErr = FALSE
    /\ RepairIdle
    /\ LockIdle

\* the two stores: a run of ids in each, the record store's from 1; the documents are in step with
\* their events, but for the price of at most one of them; or one id in
\* both, with any drift
InitCheck ==
    /\ \/ \E D \in IdPrefixes : \E I \in IdRuns : \E drifted \in I \cup {0} :
            /\ dbEvents = [id \in D |-> BaseEvent(id)]
            /\ osDocs = [id \in I |->
                            DriftedDocument(id, IF id = drifted THEN {"price"} ELSE {})]
       \/ /\ dbEvents = [id \in {1} |-> BaseEvent(id)]
          /\ osDocs \in [{1} -> SingleDocumentVariants(1)]
    /\ ManagerIdle
    /\ RetryIdle
    /\ CbrIdle
    /\ SyncIdle
    /\ requestLog = {}
    /\ loaders = [p \in Loaders |-> LoaderAtEntry]

NextCheck ==
    \/ CheckConsistencyBegin
    \/ CheckConsistencyReadDb
    \/ CheckConsistencyReadIndex
    \/ CheckEventConsistencyBegin
    \/ CheckEventReadDb
    \/ CheckEventSearchNoRecord
    \/ CheckEventSearch
    \/ ClockTick

SpecCheck == InitCheck /\ [][NextCheck]_vars

(***************************************************************************)
(* Manager.CheckConsistency against an index that holds more documents     *)
(* than the page of its search                                             *)
(***************************************************************************)
\* the index of SpecPage holds, besides the documents of osDocs, this many
\* documents whose ids no record has
FillerDocuments == pageCap

\* hits.total of the search: track_total_hits counts every document
SearchTotal == Cardinality(DOMAIN osDocs) + FillerDocuments

\* len(esResult.Events): the page is full
PageLength == IF SearchTotal <= pageCap THEN SearchTotal ELSE pageCap

\* the documents of osDocs that a page of the search can hold: any of them,
\* the filler documents take the other places of the page
PagesOverCap ==
    {H \in SUBSET DOMAIN osDocs : PageLength - Cardinality(H) <= FillerDocuments}

\* the index search with page size 10000, the two maps, the three loops over
\* them, and setCachedResult; of MissingInDB the model keeps the ids of the
\* documents of osDocs and leaves out those of the filler documents in the
\* page, which are listed with them
CheckConsistencyReadIndexOverCap ==
    /\ kcall = "CheckConsistency"
    /\ kpc = "readIndex"
    /\ kpc' = "done"
    /\ kReads' = kReads \cup {"index"}
    /\ \/ /\ checkResult' = NoResult
          /\ checkErr' = "searchErr"
          /\ kIndexErr' = TRUE
          /\ UNCHANGED <<lastCheck, lastCheckTime>>
       \/ \E hits \in PagesOverCap :
          \E inEs \in RangeOrders(MissingFrom(DOMAIN dbSnap, hits)) :
          \E inDb \in RangeOrders(MissingFrom(hits, DOMAIN dbSnap)) :
          \E both \in RangeOrders(DOMAIN dbSnap \cap hits) :
            LET mism == MismatchesOf(both, dbSnap, osDocs)
                flag == MarkInconsistent(
                            MarkInconsistent(
                                MarkInconsistent(checkResult.IsConsistent, inEs),
                                inDb),
                            mism)
                result == [checkResult EXCEPT
                              !.TotalEventsES = SearchTotal,
                              !.MissingInES = inEs,
                              !.MissingInDB = inDb,
                              !.Mismatches = mism,
                              !.IsConsistent =
                                  flag /\ PageLength = Cardinality(hits)]
            IN /\ checkResult' = result
               /\ checkErr' = "nil"
               /\ lastCheck' = setCachedResult(result, now).lastCheck
               /\ lastCheckTime' = setCachedResult(result, now).lastCheckTime
               /\ UNCHANGED kIndexErr
    /\ UNCHANGED <<dbEvents, osDocs, now, kcall, kid, dbSnap, fromCache,
                   kStart, kDbErr, repVars>>
    /\ UNCHANGED <<retryVars, cbrVars, loaders, requestLog, syncVars, lockVars>>

\* the record store holds the events 1..n, osDocs the documents of a run of
\* ids, in step with their events
InitPage ==
    /\ \E D \in IdPrefixes : \E I \in IdRuns :
          /\ dbEvents = [id \in D |-> BaseEvent(id)]
          /\ osDocs = [id \in I |-> DriftedDocument(id, {})]
    /\ ManagerIdle
    /\ RetryIdle
    /\ CbrIdle
    /\ SyncIdle
    /\ requestLog = {}
    /\ loaders = [p \in Loaders |-> LoaderAtEntry]

NextPage ==
    \/ CheckConsistencyBegin
    \/ CheckConsistencyReadDb
    \/ CheckConsistencyReadIndexOverCap
    \/ ClockTick

SpecPage == InitPage /\ [][NextPage]_vars

(***************************************************************************)
(* Manager.RepairInconsistencies, with indexing.Manager.IndexEvent,        *)
(* UpdateEvent and DeleteEvent                                             *)
(***************************************************************************)
FromDBEventStale(event) == DriftedDocument(event["id"], {"price"})

\* models.FromDBEvent: the document gets the fields of the event, one by one
FromDBEvent(event) == [f \in DocFields |-> event[f]]

\* EventDocument.ValidateForIndexing: Validate, then CreatedAt must be set
ValidateForIndexing(doc) ==
    /\ doc["id"] > 0
    /\ doc["name"] # BlankText
    /\ doc["category_id"] > 0
    /\ doc["price"] >= 0
    /\ doc["created_at"] # ZeroTime

\* the index after an index request with WithDocumentID(doc.ID) was served
IndexAfterIndex(docs, doc) ==
    [id \in DOMAIN docs \cup {doc["id"]} |->
        IF id = doc["id"] THEN doc ELSE docs[id]]

\* the index after a delete request was served (404 when there is no such
\* document, which deleteSingleEvent takes as success)
IndexAfterDelete(docs, id) == [k \in DOMAIN docs \ {id} |-> docs[k]]

\* a request sent under a context that is done fails without reaching the index
RequestOutcomes(done) == IF done THEN {"opErr"} ELSE OpErrors

RepairInner == {"indexES", "indexMismatch", "deleteDB"}

\* the repair is inside IndexEvent or DeleteEvent: ExecuteWithRetry runs
InSubOperation == kcall = "RepairInconsistencies" /\ kpc \in RepairInner

\* RepairInconsistencies is called with the result the last CheckConsistency
\* has returned
RepairBegin ==
    /\ CallIdle
    /\ kcall \in {"CheckConsistency", "RepairInconsistencies"}
    /\ ~checkResult.isNil
    /\ checkErr = "nil"
    /\ kcall' = "RepairInconsistencies"
    /\ kid' = 0
    /\ dbSnap' = <<>>
    /\ fromCache' = FALSE
    /\ kReads' = {}
    /\ kStart' = now
    /\ kDbErr' = "none"
    /\ kIndexErr' = FALSE
    /\ ri' = 1
    /\ repairErrors' = 0
    /\ processedEvents' = {}
    /\ rEvent' = <<>>
    /\ rAttempts' = {}
    /\ rFailures' = 0
    /\ rIndexRequests' = 0
    /\ rDeleteRequests' = 0
    /\ rWritten' = {}
    /\ rFetchFailed' = {}
    /\ rAfterCancel' = 0
    /\ requestLog' = {}
    /\ ctxDone' = FALSE
    /\ IF checkResult.IsConsistent
       THEN /\ kpc' = "done"
            /\ repairResult' = "nil"
       ELSE /\ kpc' = "repairES"
            /\ repairResult' = "none"
    /\ UNCHANGED <<maxRetries, attempt, lastErr, rpc, retryResult, opResults,
                   sleeps, ctxDoneAtEntry, cancelledInSleep>>
    /\ UNCHANGED <<dbEvents, osDocs, now, checkResult, checkErr,
                   lastCheck, lastCheckTime>>
    /\ UNCHANGED <<cbrVars, loaders, syncVars, lockVars>>

RepairStopsOnError(i, failed) ==
    IF failed THEN MaxRepairIds * Len(CompareFields) + 1 ELSE i + 1

\* "continue" and the end of a loop body: the loop goes on with the next
\* entry, whether the sub-operation failed or not
RepairNext(i, failed) == i + 1

\* event, err := m.store.GetEventByID(ctx, id), and on success IndexEvent /
\* UpdateEvent up to ExecuteWithRetry: a failed fetch and a failed validation
\* are appended to repairErrors
FetchAndIndex(list, id, inner) ==
    /\ rAttempts' = rAttempts \cup {<<list, id>>}
    /\ rAfterCancel' = rAfterCancel + (IF ctxDone THEN 1 ELSE 0)
    /\ \E out \in GetEventByIDOutcomes(id, ctxDone) :
         IF out # "nil"
         THEN /\ repairErrors' = repairErrors + 1
              /\ rFailures' = rFailures + 1
              /\ rFetchFailed' = rFetchFailed \cup {id}
              /\ ri' = RepairNext(ri, TRUE)
              /\ UNCHANGED <<kpc, rEvent, retryVars>>
         ELSE IF ~ValidateForIndexing(FromDBEvent(dbEvents[id]))
         THEN /\ repairErrors' = repairErrors + 1
              /\ rFailures' = rFailures + 1
              /\ ri' = RepairNext(ri, TRUE)
              /\ UNCHANGED <<kpc, rEvent, rFetchFailed, retryVars>>
         ELSE /\ rEvent' = dbEvents[id]
              /\ kpc' = inner
              /\ RetryEnter(DefaultMaxRetries)
              /\ UNCHANGED <<ri, repairErrors, rFailures, rFetchFailed>>

\* for _, eventID := range result.MissingInES
RepairMissingInES ==
    /\ kcall = "RepairInconsistencies"
    /\ kpc = "repairES"
    /\ IF ri > Len(checkResult.MissingInES)
       THEN /\ kpc' = "repairDB"
            /\ ri' = 1
            /\ UNCHANGED <<repairErrors, rEvent, rAttempts, rFailures,
                           rFetchFailed, rAfterCancel, retryVars>>
       ELSE FetchAndIndex("MissingInES", checkResult.MissingInES[ri], "indexES")
    /\ UNCHANGED <<repairResult, processedEvents, rIndexRequests,
                   rDeleteRequests, rWritten>>
    /\ UNCHANGED <<dbEvents, osDocs, now, kcall, kid, dbSnap, checkResult,
                   checkErr, fromCache, lastCheck, lastCheckTime, kAudit>>
    /\ UNCHANGED <<cbrVars, loaders, requestLog, syncVars, lockVars>>

\* one attempt of IndexEvent: indexSingleEvent sends the document
IndexSingleEvent ==
    /\ kcall = "RepairInconsistencies"
    /\ kpc \in {"indexES", "indexMismatch"}
    /\ rpc = "call"
    /\ \E timedOut \in BOOLEAN :
       \E err \in RequestOutcomes(RequestCtxDone(IndexEventRequestCtx,
                                                 ctxDone, timedOut)) :
         /\ requestLog' = requestLog \cup
               {Request("index", IndexEventRequestCtx, timedOut, err = "nil")}
         /\ osDocs' = (IF err = "nil"
                       THEN IndexAfterIndex(osDocs, FromDBEvent(rEvent))
                       ELSE osDocs)
         /\ rWritten' = (IF err = "nil"
                         THEN rWritten \cup {<<rEvent["id"], FromDBEvent(rEvent)>>}
                         ELSE rWritten)
         /\ RetryAttempt(err)
    /\ rIndexRequests' = rIndexRequests + (IF ctxDone THEN 0 ELSE 1)
    /\ UNCHANGED <<repLocals, rAttempts, rFailures, rDeleteRequests,
                   rFetchFailed, rAfterCancel>>
    /\ UNCHANGED <<dbEvents, now, kcall, kid, kpc, dbSnap, checkResult,
                   checkErr, fromCache, lastCheck, lastCheckTime, kAudit>>
    /\ UNCHANGED <<cbrVars, loaders, syncVars, lockVars>>

\* IndexEvent / UpdateEvent returned: an error is appended to repairErrors
IndexEventReturns ==
    /\ kcall = "RepairInconsistencies"
    /\ kpc \in {"indexES", "indexMismatch"}
    /\ rpc = "done"
    /\ kpc' = (IF kpc = "indexES" THEN "repairES" ELSE "repairMismatch")
    /\ repairErrors' = repairErrors + (IF retryResult # "nil" THEN 1 ELSE 0)
    /\ rFailures' = rFailures + (IF retryResult # "nil" THEN 1 ELSE 0)
    /\ ri' = RepairNext(ri, retryResult # "nil")
    /\ rEvent' = <<>>
    /\ RetryLeave
    /\ UNCHANGED <<repairResult, processedEvents, rAttempts, rIndexRequests,
                   rDeleteRequests, rWritten, rFetchFailed, rAfterCancel>>
    /\ UNCHANGED <<dbEvents, osDocs, now, kcall, kid, dbSnap, checkResult,
                   checkErr, fromCache, lastCheck, lastCheckTime, kAudit>>
    /\ UNCHANGED <<cbrVars, loaders, requestLog, syncVars, lockVars>>

\* for _, eventID := range result.MissingInDB: DeleteEvent up to
\* ExecuteWithRetry
RepairMissingInDB ==
    /\ kcall = "RepairInconsistencies"
    /\ kpc = "repairDB"
    /\ IF ri > Len(checkResult.MissingInDB)
       THEN /\ kpc' = "repairMismatch"
            /\ ri' = 1
            /\ UNCHANGED <<rAttempts, rAfterCancel, retryVars>>
       ELSE /\ kpc' = "deleteDB"
            /\ rAttempts' = rAttempts \cup {<<"MissingInDB", checkResult.MissingInDB[ri]>>}
            /\ rAfterCancel' = rAfterCancel + (IF ctxDone THEN 1 ELSE 0)
            /\ RetryEnter(DefaultMaxRetries)
            /\ UNCHANGED ri
    /\ UNCHANGED <<repairResult, repairErrors, processedEvents, rEvent,
                   rFailures, rIndexRequests, rDeleteRequests, rWritten,
                   rFetchFailed>>
    /\ UNCHANGED <<dbEvents, osDocs, now, kcall, kid, dbSnap, checkResult,
                   checkErr, fromCache, lastCheck, lastCheckTime, kAudit>>
    /\ UNCHANGED <<cbrVars, loaders, requestLog, syncVars, lockVars>>

\* one attempt of DeleteEvent: deleteSingleEvent sends the delete request
DeleteSingleEvent ==
    /\ kcall = "RepairInconsistencies"
    /\ kpc = "deleteDB"
    /\ rpc = "call"
    /\ \E timedOut \in BOOLEAN :
       \E err \in RequestOutcomes(RequestCtxDone(DeleteEventRequestCtx,
                                                 ctxDone, timedOut)) :
         /\ requestLog' = requestLog \cup
               {Request("delete", DeleteEventRequestCtx, timedOut, err = "nil")}
         /\ osDocs' = (IF err = "nil"
                       THEN IndexAfterDelete(osDocs, checkResult.MissingInDB[ri])
                       ELSE osDocs)
         /\ RetryAttempt(err)
    /\ rDeleteRequests' = rDeleteRequests + (IF ctxDone THEN 0 ELSE 1)
    /\ UNCHANGED <<repLocals, rAttempts, rFailures, rIndexRequests, rWritten,
                   rFetchFailed, rAfterCancel>>
    /\ UNCHANGED <<dbEvents, now, kcall, kid, kpc, dbSnap, checkResult,
                   checkErr, fromCache, lastCheck, lastCheckTime, kAudit>>
    /\ UNCHANGED <<cbrVars, loaders, syncVars, lockVars>>

\* DeleteEvent returned: an error is appended to repairErrors
DeleteEventReturns ==
    /\ kcall = "RepairInconsistencies"
    /\ kpc = "deleteDB"
    /\ rpc = "done"
    /\ kpc' = "repairDB"
    /\ repairErrors' = repairErrors + (IF retryResult # "nil" THEN 1 ELSE 0)
    /\ rFailures' = rFailures + (IF retryResult # "nil" THEN 1 ELSE 0)
    /\ ri' = RepairNext(ri, retryResult # "nil")
    /\ RetryLeave
    /\ UNCHANGED <<repairResult, processedEvents, rEvent, rAttempts,
                   rIndexRequests, rDeleteRequests, rWritten, rFetchFailed,
                   rAfterCancel>>
    /\ UNCHANGED <<dbEvents, osDocs, now, kcall, kid, dbSnap, checkResult,
                   checkErr, fromCache, lastCheck, lastCheckTime, kAudit>>
    /\ UNCHANGED <<cbrVars, loaders, requestLog, syncVars, lockVars>>

\* if len(repairErrors) > 0 { return fmt.Errorf("repair completed with %d
\* errors", len(repairErrors)) }; return nil
RepairVerdict(n) == IF n > 0 THEN "repairErr" ELSE "nil"

NeverProcessed(processed, id) == FALSE

\* if processedEvents[mismatch.EventID] { continue }
AlreadyProcessed(processed, id) == id \in processed

\* for _, mismatch := range result.Mismatches: an id is taken up once, then
\* the verdict
RepairMismatches ==
    /\ kcall = "RepairInconsistencies"
    /\ kpc = "repairMismatch"
    /\ IF ri > Len(checkResult.Mismatches)
       THEN /\ kpc' = "done"
            /\ repairResult' = RepairVerdict(repairErrors)
            /\ UNCHANGED <<ri, repairErrors, processedEvents, rEvent, rAttempts,
                           rFailures, rFetchFailed, rAfterCancel, retryVars>>
       ELSE IF AlreadyProcessed(processedEvents, checkResult.Mismatches[ri].EventID)
       THEN /\ ri' = ri + 1
            /\ UNCHANGED <<kpc, repairResult, repairErrors, processedEvents,
                           rEvent, rAttempts, rFailures, rFetchFailed,
                           rAfterCancel, retryVars>>
       ELSE /\ processedEvents' =
                  processedEvents \cup {checkResult.Mismatches[ri].EventID}
            /\ FetchAndIndex("Mismatches", checkResult.Mismatches[ri].EventID,
                             "indexMismatch")
            /\ UNCHANGED repairResult
    /\ UNCHANGED <<rIndexRequests, rDeleteRequests, rWritten>>
    /\ UNCHANGED <<dbEvents, osDocs, now, kcall, kid, dbSnap, checkResult,
                   checkErr, fromCache, lastCheck, lastCheckTime, kAudit>>
    /\ UNCHANGED <<cbrVars, loaders, requestLog, syncVars, lockVars>>

\* the backoff of the ExecuteWithRetry of IndexEvent or DeleteEvent ends
RepairBackoffElapsed ==
    /\ InSubOperation
    /\ BackoffElapsed
    /\ UNCHANGED <<cbrVars, loaders, requestLog, conVars, syncVars>>

RepairBackoffCancelled ==
    /\ InSubOperation
    /\ BackoffCancelled
    /\ UNCHANGED <<cbrVars, loaders, requestLog, conVars, syncVars>>

\* the caller of RepairInconsistencies cancels its context
RepairCancel ==
    /\ kcall = "RepairInconsistencies"
    /\ kpc # "done"
    /\ ~ctxDone
    /\ ctxDone' = TRUE
    /\ cancelledInSleep' = (cancelledInSleep \/ rpc = "backoff")
    /\ UNCHANGED <<maxRetries, attempt, lastErr, rpc, retryResult, opResults,
                   sleeps, ctxDoneAtEntry>>
    /\ UNCHANGED <<cbrVars, loaders, requestLog, conVars, syncVars>>

\* the stores of SpecRepair: a run of ids in each, with at most one document
\* that differs from its event, in two fields; or a record store whose first
\* event fails validation, and an empty index
InitRepair ==
    /\ \/ \E D \in {S \in IdPrefixes : S \subseteq 1..MaxRepairIds} :
          \E I \in {S \in IdRuns : S \subseteq 1..MaxRepairIds} :
          \E drifted \in I \cup {0} :
            /\ dbEvents = [id \in D |-> BaseEvent(id)]
            /\ osDocs = [id \in I |->
                            DriftedDocument(id, IF id = drifted THEN {"name", "price"}
                                                ELSE {})]
       \/ /\ dbEvents = [id \in 1..MaxRepairIds |->
                            IF id = 1 THEN InvalidEvent(id) ELSE BaseEvent(id)]
          /\ osDocs = <<>>
    /\ ManagerIdle
    /\ RetryIdle
    /\ CbrIdle
    /\ SyncIdle
    /\ requestLog = {}
    /\ loaders = [p \in Loaders |-> LoaderAtEntry]

NextRepair ==
    \/ CheckConsistencyBegin
    \/ CheckConsistencyReadDb
    \/ CheckConsistencyReadIndex
    \/ CheckEventConsistencyBegin
    \/ CheckEventReadDb
    \/ CheckEventSearchNoRecord
    \/ CheckEventSearch
    \/ ClockTick
    \/ RepairBegin
    \/ RepairMissingInES
    \/ IndexSingleEvent
    \/ IndexEventReturns
    \/ RepairMissingInDB
    \/ DeleteSingleEvent
    \/ DeleteEventReturns
    \/ RepairMismatches
    \/ RepairBackoffElapsed
    \/ RepairBackoffCancelled
    \/ RepairCancel

SpecRepair == InitRepair /\ [][NextRepair]_vars

(***************************************************************************)
(* RepairInconsistencies next to Server.CreateEvent                        *)
(***************************************************************************)
\* Server.CreateEvent, in a goroutine of its own, once the CheckResult is
\* there: storer.CreateEvent inserts the event under the id the database
\* returns (RETURNING id: an id the record store does not hold), then
\* esService.IndexEvent writes its document; a failure of IndexEvent is only
\* logged.  IndexEvent with its retries is one step here.
CreateEvent ==
    /\ kcall \in {"CheckConsistency", "RepairInconsistencies"}
    /\ kcall = "CheckConsistency" => kpc = "done"
    /\ ~checkResult.isNil
    /\ checkErr = "nil"
    /\ \E id \in (1..MaxRepairIds) \ DOMAIN dbEvents :
       \E err \in OpErrors :
          /\ dbEvents' = [k \in DOMAIN dbEvents \cup {id} |->
                             IF k = id THEN BaseEvent(id) ELSE dbEvents[k]]
          /\ osDocs' = (IF err = "nil"
                        THEN IndexAfterIndex(osDocs, FromDBEvent(BaseEvent(id)))
                        ELSE osDocs)
    /\ UNCHANGED <<now, kcall, kid, kpc, dbSnap, checkResult, checkErr,
                   fromCache, lastCheck, lastCheckTime, kAudit, repVars>>
    /\ UNCHANGED <<retryVars, cbrVars, loaders, requestLog, syncVars, lockVars>>

NextRepairWrites ==
    \/ NextRepair
    \/ CreateEvent

SpecRepairWrites == InitRepair /\ [][NextRepairWrites]_vars

(***************************************************************************)
(* RepairInconsistencies called with a CheckResult its caller has built    *)
(***************************************************************************)
\* results a caller can pass: any flag with any lists; the Mismatches name
\* event 1 once or twice
HandMadeResults ==
    {[NewResult(0) EXCEPT !.IsConsistent = flag, !.MissingInES = inEs,
                          !.MissingInDB = inDb, !.Mismatches = mism] :
        flag \in BOOLEAN,
        inEs \in {<<>>, <<1>>},
        inDb \in {<<>>, <<MaxRepairIds>>},
        mism \in {<<>>,
                  compareEvent(BaseEvent(1), DriftedDocument(1, {"name"})),
                  compareEvent(BaseEvent(1), DriftedDocument(1, {"name", "price"}))}}

\* RepairInconsistencies(ctx, result) with such a result
RepairCalledWith ==
    /\ CallIdle
    /\ \E r \in HandMadeResults : checkResult' = r
    /\ kcall' = "RepairInconsistencies"
    /\ kid' = 0
    /\ dbSnap' = <<>>
    /\ fromCache' = FALSE
    /\ kReads' = {}
    /\ kStart' = now
    /\ kDbErr' = "none"
    /\ kIndexErr' = FALSE
    /\ ri' = 1
    /\ repairErrors' = 0
    /\ processedEvents' = {}
    /\ rEvent' = <<>>
    /\ rAttempts' = {}
    /\ rFailures' = 0
    /\ rIndexRequests' = 0
    /\ rDeleteRequests' = 0
    /\ rWritten' = {}
    /\ rFetchFailed' = {}
    /\ rAfterCancel' = 0
    /\ requestLog' = {}
    /\ ctxDone' = FALSE
    /\ IF checkResult'.IsConsistent
       THEN /\ kpc' = "done"
            /\ repairResult' = "nil"
       ELSE /\ kpc' = "repairES"
            /\ repairResult' = "none"
    /\ UNCHANGED <<maxRetries, attempt, lastErr, rpc, retryResult, opResults,
                   sleeps, ctxDoneAtEntry, cancelledInSleep>>
    /\ UNCHANGED <<dbEvents, osDocs, now, checkErr, lastCheck, lastCheckTime>>
    /\ UNCHANGED <<cbrVars, loaders, syncVars, lockVars>>

NextRepairAny ==
    \/ RepairCalledWith
    \/ RepairMissingInES
    \/ IndexSingleEvent
    \/ IndexEventReturns
    \/ RepairMissingInDB
    \/ DeleteSingleEvent
    \/ DeleteEventReturns
    \/ RepairMismatches
    \/ RepairBackoffElapsed
    \/ RepairBackoffCancelled
    \/ RepairCancel

SpecRepairAny == InitRepair /\ [][NextRepairAny]_vars

(***************************************************************************)
(* Manager.CheckConsistency called by several goroutines at once: m.mu,    *)
(* getCachedResult and setCachedResult                                     *)
(***************************************************************************)
\* the positions at which a goroutine is inside getCachedResult, between
\* m.mu.RLock() and the deferred m.mu.RUnlock()
ReadSection == {"readLastCheck", "readLastCheckTime", "RUnlock"}

\* the positions at which a goroutine is inside setCachedResult, between
\* m.mu.Lock() and the deferred m.mu.Unlock()
WriteSection == {"writeLastCheck", "writeLastCheckTime", "Unlock"}

\* the positions at which a goroutine waits for m.store.GetEvents or for
\* m.esService.SearchEvents
StoreScan == {"readDb", "readIndex"}

\* sync.RWMutex: RLock returns while no goroutine holds the lock for writing
\* (that a waiting Lock holds new readers back only removes interleavings)
CanRLock(m) == m.writer = NoCaller

\* sync.RWMutex: Lock returns while no goroutine holds the lock
CanLock(m) == m.readers = {} /\ m.writer = NoCaller

HoldsLock(c) == c \in mu.readers \/ mu.writer = c

\* goroutine c is inside RLock or Lock and cannot return from it
Blocked(c) ==
    \/ cpc[c] = "RLock" /\ ~CanRLock(mu)
    \/ cpc[c] = "Lock" /\ ~CanLock(mu)

RUnlockAtReturn(m, c) == m

\* defer m.mu.RUnlock() of getCachedResult
RUnlock(m, c) == [m EXCEPT !.readers = @ \ {c}]

\* the results the three loops of CheckConsistency can end with, for the
\* record-store snapshot snap and the index as it is
ComparedResults(partial, snap) ==
    {[partial EXCEPT
          !.TotalEventsES = Cardinality(DOMAIN osDocs),
          !.MissingInES = inEs,
          !.MissingInDB = inDb,
          !.Mismatches = MismatchesOf(both, snap, osDocs),
          !.IsConsistent =
              MarkInconsistent(
                  MarkInconsistent(
                      MarkInconsistent(partial.IsConsistent, inEs), inDb),
                  MismatchesOf(both, snap, osDocs))] :
        inEs \in RangeOrders(MissingFrom(DOMAIN snap, DOMAIN osDocs)),
        inDb \in RangeOrders(MissingFrom(DOMAIN osDocs, DOMAIN snap)),
        both \in RangeOrders(DOMAIN snap \cap DOMAIN osDocs)}

\* what a step of a goroutine leaves alone
LockFrame ==
    /\ UNCHANGED <<dbEvents, osDocs, now, kcall, kid, kpc, dbSnap, checkResult,
                   checkErr, fromCache, kAudit, repVars>>
    /\ UNCHANGED <<retryVars, cbrVars, loaders, requestLog, syncVars>>

\* a goroutine calls CheckConsistency, which calls getCachedResult
CheckConsistencyCalled(c) ==
    /\ cpc[c] \in {"idle", "done"}
    /\ cpc' = [cpc EXCEPT ![c] = "RLock"]
    /\ cSeen' = [cSeen EXCEPT ![c] = NoResult]
    /\ cHit' = [cHit EXCEPT ![c] = FALSE]
    /\ cSnap' = [cSnap EXCEPT ![c] = <<>>]
    /\ cResult' = [cResult EXCEPT ![c] = NoResult]
    /\ cErr' = [cErr EXCEPT ![c] = "none"]
    /\ UNCHANGED <<mu, lastCheck, lastCheckTime, cacheWhole>>
    /\ LockFrame

\* m.mu.RLock() returns
GetCachedRLock(c) ==
    /\ cpc[c] = "RLock"
    /\ CanRLock(mu)
    /\ mu' = [mu EXCEPT !.readers = @ \cup {c}]
    /\ cpc' = [cpc EXCEPT ![c] = "readLastCheck"]
    /\ UNCHANGED <<cSeen, cHit, cSnap, cResult, cErr, lastCheck, lastCheckTime,
                   cacheWhole>>
    /\ LockFrame

\* if m.lastCheck == nil { return nil }
GetCachedReadLastCheck(c) ==
    /\ cpc[c] = "readLastCheck"
    /\ cSeen' = [cSeen EXCEPT ![c] = lastCheck]
    /\ cpc' = [cpc EXCEPT ![c] =
                  IF lastCheck.isNil THEN "RUnlock" ELSE "readLastCheckTime"]
    /\ UNCHANGED <<mu, cHit, cSnap, cResult, cErr, lastCheck, lastCheckTime,
                   cacheWhole>>
    /\ LockFrame

\* if time.Since(m.lastCheckTime) > m.checkCacheTTL { return nil }
GetCachedReadLastCheckTime(c) ==
    /\ cpc[c] = "readLastCheckTime"
    /\ cHit' = [cHit EXCEPT ![c] = ~(now - lastCheckTime > checkCacheTTL)]
    /\ cpc' = [cpc EXCEPT ![c] = "RUnlock"]
    /\ UNCHANGED <<mu, cSeen, cSnap, cResult, cErr, lastCheck, lastCheckTime,
                   cacheWhole>>
    /\ LockFrame

\* getCachedResult returns, and with it the deferred RUnlock runs: the cached
\* result is returned, or a new result is begun
GetCachedReturns(c) ==
    /\ cpc[c] = "RUnlock"
    /\ mu' = RUnlock(mu, c)
    /\ IF cHit[c]
       THEN /\ cResult' = [cResult EXCEPT ![c] = cSeen[c]]
            /\ cErr' = [cErr EXCEPT ![c] = "nil"]
            /\ cpc' = [cpc EXCEPT ![c] = "done"]
       ELSE /\ cResult' = [cResult EXCEPT ![c] = NewResult(now)]
            /\ cpc' = [cpc EXCEPT ![c] = "readDb"]
            /\ UNCHANGED cErr
    /\ UNCHANGED <<cSeen, cHit, cSnap, lastCheck, lastCheckTime, cacheWhole>>
    /\ LockFrame

\* dbEvents, err := m.store.GetEvents(ctx)
ScanReadDb(c) ==
    /\ cpc[c] = "readDb"
    /\ \E ok \in BOOLEAN :
         IF ok
         THEN /\ cSnap' = [cSnap EXCEPT ![c] = dbEvents]
              /\ cResult' = [cResult EXCEPT
                                ![c].TotalEventsDB = Cardinality(DOMAIN dbEvents)]
              /\ cpc' = [cpc EXCEPT ![c] = "readIndex"]
              /\ UNCHANGED cErr
         ELSE /\ cResult' = [cResult EXCEPT ![c] = NoResult]
              /\ cErr' = [cErr EXCEPT ![c] = "dbErr"]
              /\ cpc' = [cpc EXCEPT ![c] = "done"]
              /\ UNCHANGED cSnap
    /\ UNCHANGED <<mu, cSeen, cHit, lastCheck, lastCheckTime, cacheWhole>>
    /\ LockFrame

\* esResult, err := m.esService.SearchEvents(ctx, filter), the two maps and
\* the three loops over them, up to the call of setCachedResult
ScanReadIndex(c) ==
    /\ cpc[c] = "readIndex"
    /\ \/ /\ cResult' = [cResult EXCEPT ![c] = NoResult]
          /\ cErr' = [cErr EXCEPT ![c] = "searchErr"]
          /\ cpc' = [cpc EXCEPT ![c] = "done"]
       \/ /\ \E result \in ComparedResults(cResult[c], cSnap[c]) :
                cResult' = [cResult EXCEPT ![c] = result]
          /\ cpc' = [cpc EXCEPT ![c] = "Lock"]
          /\ UNCHANGED cErr
    /\ UNCHANGED <<mu, cSeen, cHit, cSnap, lastCheck, lastCheckTime, cacheWhole>>
    /\ LockFrame

\* m.mu.Lock() returns
SetCachedLock(c) ==
    /\ cpc[c] = "Lock"
    /\ CanLock(mu)
    /\ mu' = [mu EXCEPT !.writer = c]
    /\ cpc' = [cpc EXCEPT ![c] = "writeLastCheck"]
    /\ UNCHANGED <<cSeen, cHit, cSnap, cResult, cErr, lastCheck, lastCheckTime,
                   cacheWhole>>
    /\ LockFrame

\* m.lastCheck = result
SetCachedWriteLastCheck(c) ==
    /\ cpc[c] = "writeLastCheck"
    /\ lastCheck' = cResult[c]
    /\ cpc' = [cpc EXCEPT ![c] = "writeLastCheckTime"]
    /\ UNCHANGED <<mu, cSeen, cHit, cSnap, cResult, cErr, lastCheckTime,
                   cacheWhole>>
    /\ LockFrame

\* m.lastCheckTime = time.Now()
SetCachedWriteLastCheckTime(c) ==
    /\ cpc[c] = "writeLastCheckTime"
    /\ lastCheckTime' = now
    /\ cpc' = [cpc EXCEPT ![c] = "Unlock"]
    /\ UNCHANGED <<mu, cSeen, cHit, cSnap, cResult, cErr, lastCheck, cacheWhole>>
    /\ LockFrame

\* setCachedResult returns, and with it the deferred Unlock runs;
\* CheckConsistency returns the result it computed
SetCachedReturns(c) ==
    /\ cpc[c] = "Unlock"
    /\ mu' = [mu EXCEPT !.writer = NoCaller]
    /\ cacheWhole' = <<cResult[c], lastCheckTime>>
    /\ cErr' = [cErr EXCEPT ![c] = "nil"]
    /\ cpc' = [cpc EXCEPT ![c] = "done"]
    /\ UNCHANGED <<cSeen, cHit, cSnap, cResult, lastCheck, lastCheckTime>>
    /\ LockFrame

\* the record store holds one event or none, the index its document or none;
\* every goroutine is outside the Manager
InitLock ==
    /\ \E D \in SUBSET {1} : \E I \in SUBSET {1} :
          /\ dbEvents = [id \in D |-> BaseEvent(id)]
          /\ osDocs = [id \in I |-> DriftedDocument(id, {})]
    /\ ManagerIdle
    /\ RetryIdle
    /\ CbrIdle
    /\ SyncIdle
    /\ requestLog = {}
    /\ loaders = [p \in Loaders |-> LoaderAtEntry]

NextLock ==
    \/ \E c \in Callers : CheckConsistencyCalled(c)
    \/ \E c \in Callers : GetCachedRLock(c)
    \/ \E c \in Callers : GetCachedReadLastCheck(c)
    \/ \E c \in Callers : GetCachedReadLastCheckTime(c)
    \/ \E c \in Callers : GetCachedReturns(c)
    \/ \E c \in Callers : ScanReadDb(c)
    \/ \E c \in Callers : ScanReadIndex(c)
    \/ \E c \in Callers : SetCachedLock(c)
    \/ \E c \in Callers : SetCachedWriteLastCheck(c)
    \/ \E c \in Callers : SetCachedWriteLastCheckTime(c)
    \/ \E c \in Callers : SetCachedReturns(c)
    \/ ClockTick

SpecLock == InitLock /\ [][NextLock]_vars

(***************************************************************************)
(* Loader.InitializeOpenSearchData called by several goroutines, one after *)
(* the other or at once; no context is cancelled                           *)
(***************************************************************************)
ProbeFindsDataAlways(ok, n) == ok

\* err == nil && existingResult.Total > 0: the probe answered and the index
\* holds a document
ProbeFindsData(ok, n) == ok /\ n > 0

\* what a step of a loader goroutine leaves alone
BootFrame ==
    /\ UNCHANGED <<entry, total, invalidIds, rejectedIds, index0, callerCtxDone,
                   cancelledAt>>
    /\ UNCHANGED <<loaderVars, bulkVars, histVars, auditVars>>
    /\ UNCHANGED <<retryVars, cbrVars, conVars>>

\* events, err := l.storer.GetEvents(ctx); if len(events) == 0 { return nil }
BootGetEvents(p) ==
    /\ loaders[p].pc = "getEvents"
    /\ \E ok \in BOOLEAN :
         LET l == loaders[p]
         IN loaders' = [loaders EXCEPT ![p] =
               IF ~ok THEN [l EXCEPT !.pc = "done", !.result = "storeErr"]
               ELSE IF RecordSetIsEmpty(total)
               THEN [l EXCEPT !.pc = "done", !.result = "nil"]
               ELSE [l EXCEPT !.pc = "probe"]]
    /\ UNCHANGED <<index, requestLog>>
    /\ BootFrame

\* SearchEvents with pagination (0, 1): a failed probe is only logged, a
\* positive total ends the call, otherwise the chunk loop begins
BootProbeIndex(p) ==
    /\ loaders[p].pc = "probe"
    /\ \E ok \in BOOLEAN :
         LET l == loaders[p]
         IN loaders' = [loaders EXCEPT ![p] =
               IF ProbeFindsData(ok, Cardinality(index))
               THEN [l EXCEPT !.pc = "done", !.result = "nil"]
               ELSE [l EXCEPT !.pc = "loopHead", !.i = 0]]
    /\ UNCHANGED <<index, requestLog>>
    /\ BootFrame

\* for i := 0; i < totalEvents; i += batchSize: the next chunk goes to
\* indexBatchWithRetry, BulkIndexEvents and processBatch, or the loop is over
BootLoopHead(p) ==
    /\ loaders[p].pc = "loopHead"
    /\ LET l == loaders[p]
       IN loaders' = [loaders EXCEPT ![p] =
             IF l.i < total
             THEN [l EXCEPT !.pc = "request", !.attempt = 1, !.retry = 1]
             ELSE [l EXCEPT !.pc = "done",
                            !.result = BootstrapVerdict(l.successCount,
                                                        l.errorCount)]]
    /\ UNCHANGED <<index, requestLog>>
    /\ BootFrame

\* the chunk of loader l is done, indexed or failed
BootChunkDone(l, ok) ==
    LET n == LoaderChunkEnd(l.i, total) - l.i
    IN [l EXCEPT !.successCount = @ + (IF ok THEN n ELSE 0),
                 !.errorCount = @ + (IF ok THEN 0 ELSE n),
                 !.i = LoaderNextChunk(@),
                 !.pc = "loopHead"]

\* one bulk request for the chunk, and what ExecuteWithRetry, processBatch,
\* BulkIndexEvents and indexBatchWithRetry do with its result, up to the
\* next request
BootBulkRequest(p) ==
    /\ loaders[p].pc = "request"
    /\ \E outcome \in BulkOutcomes(FALSE) :
         LET l == loaders[p]
             from == l.i
             to == LoaderChunkEnd(l.i, total)
             err == ExecuteBulkRequestError(outcome, from, to)
         IN /\ index' = (IF outcome \in {"ok", "garbled"}
                         THEN IndexAfterBulk(index, from, to) ELSE index)
            /\ requestLog' = requestLog \cup
                  {Request("bulk", ProcessBatchRequestCtx, FALSE,
                           ~IsTransientFailure(outcome))}
            /\ loaders' = [loaders EXCEPT ![p] =
                  IF ReturnsOnSuccess(err, l.retry)
                  THEN BootChunkDone(l, TRUE)
                  ELSE IF LoopContinues(l.retry + 1, DefaultMaxRetries)
                  THEN [l EXCEPT !.retry = @ + 1]
                  ELSE IF l.attempt + 1 <= loaderMaxRetries
                  THEN [l EXCEPT !.attempt = @ + 1, !.retry = 1]
                  ELSE BootChunkDone(l, FALSE)]
    /\ BootFrame

\* an empty index or one orphaned document, any record set, every event
\* valid and acceptable to the index
InitBootTwice ==
    /\ entry = "Bootstrap"
    /\ total \in RecordSetSizes
    /\ index \in {{}, {OrphanId}}
    /\ index0 = index
    /\ invalidIds = {}
    /\ rejectedIds = {}
    /\ callerCtxDone = FALSE
    /\ cancelledAt = "none"
    /\ lpc = "idle"
    /\ li = 0
    /\ successCount = 0
    /\ errorCount = 0
    /\ lAttempt = 1
    /\ lLastErr = "nil"
    /\ bootResult = "none"
    /\ mpc = "idle"
    /\ bLo = 0
    /\ bHi = 0
    /\ bi = 0
    /\ bulkResult = "none"
    /\ chunkLog = <<>>
    /\ bulkChunkLog = <<>>
    /\ chunkFailures = 0
    /\ chunkResults = <<>>
    /\ bulkSubmits = 0
    /\ indexWritten = FALSE
    /\ indexRead = FALSE
    /\ syncStatus = NoStatus
    /\ RetryIdle
    /\ CbrIdle
    /\ ConIdle
    /\ requestLog = {}
    /\ loaders = [p \in Loaders |-> LoaderAtEntry]

NextBootTwice ==
    \/ \E p \in Loaders : BootGetEvents(p)
    \/ \E p \in Loaders : BootProbeIndex(p)
    \/ \E p \in Loaders : BootLoopHead(p)
    \/ \E p \in Loaders : BootBulkRequest(p)

SpecBootTwice == InitBootTwice /\ [][NextBootTwice]_vars

(***************************************************************************)
(* Claims about CheckConsistency, CheckEventConsistency and compareEvent   *)
(***************************************************************************)
\* CheckConsistency has returned a result it computed in this call
Recomputed ==
    /\ kcall = "CheckConsistency"
    /\ kpc = "done"
    /\ checkErr = "nil"
    /\ ~fromCache

\* C18: for any id set D of the record store and I of the index, I within
\* the page cap, a recomputed CheckConsistency reports as sets
\* MissingInIndex = D \ I and MissingInRecordStore = I \ D, each id once;
\* D = {1,2,3}, I = {2,3,4} gives {1}, {4} and IsConsistent = false.
C18_MissingListsAreSetDifferences ==
    (Recomputed /\ Cardinality(DOMAIN osDocs) <= pageCap)
        => LET D == DOMAIN dbEvents
               I == DOMAIN osDocs
               r == checkResult
           IN /\ SeqRange(r.MissingInES) = D \ I
              /\ Len(r.MissingInES) = Cardinality(D \ I)
              /\ SeqRange(r.MissingInDB) = I \ D
              /\ Len(r.MissingInDB) = Cardinality(I \ D)
              /\ D # I => ~r.IsConsistent
              /\ (D = {1, 2, 3} /\ I = {2, 3, 4})
                    => /\ r.MissingInES = <<1>>
                       /\ r.MissingInDB = <<4>>
                       /\ ~r.IsConsistent

C18_Witness ==
    /\ Recomputed
    /\ DOMAIN dbEvents = {1, 2, 3}
    /\ DOMAIN osDocs = {2, 3, 4}
    /\ checkResult.MissingInES = <<1>>
    /\ checkResult.MissingInDB = <<4>>
    /\ ~checkResult.IsConsistent

ListsEmpty(r) ==
    /\ r.MissingInES = <<>>
    /\ r.MissingInDB = <<>>
    /\ r.Mismatches = <<>>

\* C19: in every CheckResult that CheckConsistency or CheckEventConsistency
\* returns, and in the cached one, IsConsistent is true if and only if the
\* three lists are empty.
C19_ConsistentIffListsEmpty ==
    /\ (kpc = "done" /\ checkErr = "nil")
          => /\ ~checkResult.isNil
             /\ checkResult.IsConsistent <=> ListsEmpty(checkResult)
    /\ ~lastCheck.isNil => (lastCheck.IsConsistent <=> ListsEmpty(lastCheck))

C19_Witness ==
    /\ kcall = "CheckEventConsistency"
    /\ kpc = "done"
    /\ checkErr = "nil"
    /\ checkResult.MissingInDB = <<kid>>
    /\ checkResult.MissingInES = <<>>
    /\ checkResult.Mismatches = <<>>
    /\ ~checkResult.IsConsistent
    /\ ~lastCheck.isNil
    /\ lastCheck.IsConsistent

\* the number of mismatches in list for this id and field
MismatchCount(list, id, f) ==
    Cardinality({k \in 1..Len(list) : list[k].EventID = id /\ list[k].Field = f})

\* C20: for every id in both stores, the comparison of a recomputed
\* CheckConsistency yields exactly one mismatch for each compared field whose
\* values differ and none for a field whose values are equal, and every
\* mismatch carries the rendering of the record-store value and of the index
\* value of its field.
C20_OneMismatchPerDifferingField ==
    Recomputed
        => LET list == checkResult.Mismatches
               both == DOMAIN dbEvents \cap DOMAIN osDocs
           IN /\ \A id \in both : \A f \in FieldSet :
                    MismatchCount(list, id, f)
                        = (IF dbEvents[id][f] # osDocs[id][f] THEN 1 ELSE 0)
              /\ \A k \in 1..Len(list) :
                    /\ list[k].EventID \in both
                    /\ list[k].Field \in FieldSet
                    /\ list[k].DBValue
                          = Render(list[k].Field, dbEvents[list[k].EventID][list[k].Field])
                    /\ list[k].ESValue
                          = Render(list[k].Field, osDocs[list[k].EventID][list[k].Field])

\* price 10.0 in the record store, 12.0 in the index, all else equal
C20_Witness ==
    /\ Recomputed
    /\ DOMAIN dbEvents = {1}
    /\ DOMAIN osDocs = {1}
    /\ osDocs[1] = DriftedDocument(1, {"price"})
    /\ checkResult.Mismatches =
          <<[EventID |-> 1, Field |-> "price", DBValue |-> 1000, ESValue |-> 1200]>>

(***************************************************************************)
(* Claims about the cache of CheckConsistency and about                    *)
(* CheckEventConsistency                                                   *)
(***************************************************************************)
\* a CheckConsistency call that did not take the cached result and has not
\* replaced it
RecomputeUnderWay ==
    /\ kcall = "CheckConsistency"
    /\ ~fromCache
    /\ \/ kpc \in {"readDb", "readIndex"}
       \/ kpc = "done" /\ checkErr # "nil"

\* C21: a CheckConsistency call that begins while a result is cached and
\* not older than the TTL returns that very result (same Timestamp) without a
\* read of either store, and it is the only way the cached result is
\* returned; a call that begins with no cached result or after the TTL has
\* run out reads the stores, and a result it returns was built by this call
\* from a read of both stores.
C21_CachedWithinTTL ==
    /\ (kcall = "CheckConsistency" /\ kpc = "done" /\ fromCache)
          => /\ checkErr = "nil"
             /\ ~checkResult.isNil
             /\ checkResult = lastCheck
             /\ checkResult.Timestamp = lastCheck.Timestamp
             /\ kReads = {}
             /\ kStart - lastCheckTime <= checkCacheTTL
    /\ RecomputeUnderWay
          => (lastCheck.isNil \/ kStart - lastCheckTime > checkCacheTTL)
    /\ Recomputed
          => /\ kReads = {"db", "index"}
             /\ checkResult.Timestamp = kStart

\* a result built at minute 0 is returned by a call one TTL after it was cached
C21_Witness ==
    /\ kcall = "CheckConsistency"
    /\ kpc = "done"
    /\ fromCache
    /\ kStart = lastCheckTime + checkCacheTTL
    /\ checkResult.Timestamp < kStart
    /\ kReads = {}

\* C23: CheckEventConsistency never returns the cached result: the result it
\* returns was built by this call, after a read of the record store and a
\* search of the index for the given id, whatever the cache holds; and no
\* step of a CheckEventConsistency call changes lastCheck or lastCheckTime.
C23_EventCheckBypassesCache ==
    /\ [](kcall = "CheckEventConsistency"
            => /\ ~fromCache
               /\ (kpc = "done" => kReads = {"db", "index"})
               /\ (~checkResult.isNil => checkResult.Timestamp = kStart))
    /\ [][kcall' = "CheckEventConsistency"
            => (lastCheck' = lastCheck /\ lastCheckTime' = lastCheckTime)]_vars

\* a single-event check that began while an older cached result was fresh
C23_Witness ==
    /\ kcall = "CheckEventConsistency"
    /\ kpc = "done"
    /\ checkErr = "nil"
    /\ ~lastCheck.isNil
    /\ kStart - lastCheckTime <= checkCacheTTL
    /\ lastCheck.Timestamp < kStart
    /\ checkResult.Timestamp = kStart
    /\ kReads = {"db", "index"}

\* C24: a CheckEventConsistency call returns IsConsistent = true with a nil
\* error only when the record and the document of the id both exist and no
\* compared field differs, or both are absent; and when the record-store
\* read or the index search failed, it returns an error.
C24_EventCheckNeverHidesMismatch ==
    (kcall = "CheckEventConsistency" /\ kpc = "done")
        => /\ (checkErr = "nil" /\ checkResult.IsConsistent)
                => \/ /\ kid \in DOMAIN dbEvents
                      /\ kid \in DOMAIN osDocs
                      /\ compareEvent(dbEvents[kid], osDocs[kid]) = <<>>
                   \/ /\ kid \notin DOMAIN dbEvents
                      /\ kid \notin DOMAIN osDocs
           /\ (kDbErr = "ioErr" \/ kIndexErr) => checkErr # "nil"

(***************************************************************************)
(* Claims about the cache state machine and RepairInconsistencies          *)
(***************************************************************************)
\* this step changes m.lastCheck or m.lastCheckTime
CacheReplaced == lastCheck' # lastCheck \/ lastCheckTime' # lastCheckTime

\* this step is the last one of a CheckConsistency call that computed a
\* result and returns it
RecomputeSucceeds ==
    /\ kcall = "CheckConsistency"
    /\ kpc = "readIndex"
    /\ kpc' = "done"
    /\ checkErr' = "nil"
    /\ ~fromCache'

\* C22: lastCheck and lastCheckTime change only in the step that ends a
\* successful recompute of CheckConsistency, which stores the result it
\* returns and the time; a populated cache never becomes empty; a
\* CheckConsistency that fails on a read, a CheckEventConsistency call and a
\* RepairInconsistencies call leave both unchanged.
C22_CacheOnlyReplacedByRecompute ==
    [][/\ CacheReplaced => RecomputeSucceeds
       /\ RecomputeSucceeds
             => /\ ~lastCheck'.isNil
                /\ lastCheck' = checkResult'
                /\ lastCheckTime' = now
       /\ ~lastCheck.isNil => ~lastCheck'.isNil
       /\ kcall' \in {"CheckEventConsistency", "RepairInconsistencies"}
             => ~CacheReplaced
       /\ (kcall' = "CheckConsistency" /\ checkErr' \in {"dbErr", "searchErr"})
             => ~CacheReplaced]_vars

\* the stores agree: the same ids, and no compared field differs
StoresAgree ==
    /\ DOMAIN dbEvents = DOMAIN osDocs
    /\ \A id \in DOMAIN dbEvents : compareEvent(dbEvents[id], osDocs[id]) = <<>>

\* a repair has brought the stores into step and the cache still holds the
\* inconsistent result of the minute before
C22_Witness ==
    /\ kcall = "RepairInconsistencies"
    /\ kpc = "done"
    /\ repairResult = "nil"
    /\ rIndexRequests > 0
    /\ StoresAgree
    /\ ~lastCheck.isNil
    /\ ~lastCheck.IsConsistent
    /\ lastCheckTime < now

\* RepairInconsistencies has returned after going through the lists
Repaired ==
    /\ kcall = "RepairInconsistencies"
    /\ kpc = "done"
    /\ ~checkResult.IsConsistent

\* C25: a RepairInconsistencies call on a result with exactly one
\* missing-in-index id, exactly one missing-in-record-store id and no
\* mismatch, in which nothing fails and the context stays live, sends exactly
\* one index request and exactly one delete request, and leaves the stores
\* in agreement.
C25_RepairOneWriteOneDelete ==
    (/\ Repaired
     /\ Len(checkResult.MissingInES) = 1
     /\ Len(checkResult.MissingInDB) = 1
     /\ checkResult.Mismatches = <<>>
     /\ rFailures = 0
     /\ ~ctxDone)
        => /\ rIndexRequests = 1
           /\ rDeleteRequests = 1
           /\ StoresAgree

\* C26: when RepairInconsistencies has returned, every id of the
\* missing-in-index list, every id of the missing-in-record-store list and
\* every mismatched id had a repair begun for it, whichever fetches, index
\* writes and deletes failed; the call returns the aggregate error if and
\* only if a sub-operation failed, and the count it reports is the number of
\* failed sub-operations.
C26_RepairNeverStopsEarly ==
    Repaired
        => /\ \A k \in 1..Len(checkResult.MissingInES) :
                 <<"MissingInES", checkResult.MissingInES[k]>> \in rAttempts
           /\ \A k \in 1..Len(checkResult.MissingInDB) :
                 <<"MissingInDB", checkResult.MissingInDB[k]>> \in rAttempts
           /\ \A k \in 1..Len(checkResult.Mismatches) :
                 <<"Mismatches", checkResult.Mismatches[k].EventID>> \in rAttempts
           /\ repairResult = "repairErr" <=> rFailures > 0
           /\ repairResult \in {"nil", "repairErr"}
           /\ repairErrors = rFailures

\* the first of two missing documents could not be fetched, the second was
\* written
C26_Witness ==
    /\ Repaired
    /\ Len(checkResult.MissingInES) = 2
    /\ rFetchFailed = {checkResult.MissingInES[1]}
    /\ checkResult.MissingInES[2] \in DOMAIN osDocs
    /\ repairResult = "repairErr"
    /\ repairErrors = 1
    /\ ~ctxDone

\* C27: no step changes the record store; a document that a step of
\* RepairInconsistencies puts into the index carries, field by field, the
\* values of the record of its id, which the call has just fetched; and no
\* document is written for an id whose fetch failed.
C27_RepairIsOneDirectional ==
    /\ [][dbEvents' = dbEvents]_vars
    /\ [][\A id \in DOMAIN osDocs' :
            (id \notin DOMAIN osDocs \/ osDocs'[id] # osDocs[id])
               => /\ kcall = "RepairInconsistencies"
                  /\ id \in DOMAIN dbEvents
                  /\ rEvent = dbEvents[id]
                  /\ \A f \in DocFields : osDocs'[id][f] = dbEvents[id][f]
                  /\ id \notin rFetchFailed]_vars
    /\ [](\A w \in rWritten : w[1] \notin rFetchFailed)

\* a document that differed from its record was overwritten with the
\* fields of the record
C27_Witness ==
    /\ Repaired
    /\ checkResult.Mismatches # <<>>
    /\ rWritten = {<<1, BaseEvent(1)>>}
    /\ 1 \in DOMAIN osDocs
    /\ \A f \in DocFields : osDocs[1][f] = dbEvents[1][f]

\* C29: once the context of a RepairInconsistencies call is cancelled, no
\* fetch, index write or delete is begun for the ids that remain, and the
\* call does not return the aggregate "repair completed with N errors".
C29_RepairStopsOnCancel ==
    (kcall = "RepairInconsistencies" /\ ctxDone)
        => /\ rAfterCancel = 0
           /\ repairResult # "repairErr"

(***************************************************************************)
(* Claim about the cancellation of Bootstrap                               *)
(***************************************************************************)
\* the caller cancelled while a chunk was in indexBatchWithRetry: during an
\* attempt or during the backoff between two attempts
CancelledDuringChunk ==
    /\ entry = "Bootstrap"
    /\ cancelledAt \in {"attempt", "inBulk", "lBackoff"}

\* C28: when the caller's context is cancelled during a chunk's attempt or
\* backoff, Bootstrap takes up no further chunk after the cancellation and
\* returns the cancellation error.
C28_BootstrapStopsOnCancel ==
    /\ [][CancelledDuringChunk => chunkLog' = chunkLog]_vars
    /\ []((CancelledDuringChunk /\ lpc = "done") => bootResult = "ctxErr")

\* a goroutine reads or writes m.lastCheck and m.lastCheckTime only while it
\* holds m.mu, for reading in getCachedResult and alone in setCachedResult,
\* and both fields within one holding of the lock
CacheAccessedUnderLock ==
    /\ \A c \in Callers :
          /\ cpc[c] \in ReadSection => c \in mu.readers /\ mu.writer = NoCaller
          /\ cpc[c] \in WriteSection => mu.writer = c /\ mu.readers = {}
          /\ cpc[c] = "readLastCheckTime" => cSeen[c] = lastCheck
    /\ mu.writer = NoCaller => <<lastCheck, lastCheckTime>> = cacheWhole

\* no goroutine waits for the lock while a goroutine that holds it waits for
\* one of the stores
NoCallerWaitsForScan ==
    \A c \in Callers : Blocked(c) =>
        \A h \in Callers : HoldsLock(h) => cpc[h] \notin StoreScan

\* C30 (as stated): in every interleaving of concurrent CheckConsistency
\* calls, no record-store read and no index search is in progress while any
\* caller holds the lock, lastCheck and lastCheckTime are only read or
\* replaced together under the lock, and no caller blocks on the lock for
\* the duration of another caller's store scan.
C30_NoScanWhileLockHeld ==
    /\ (\E c \in Callers : cpc[c] \in StoreScan)
          => (mu.readers = {} /\ mu.writer = NoCaller)
    /\ CacheAccessedUnderLock
    /\ NoCallerWaitsForScan

\* C30 (amended): in every interleaving of concurrent CheckConsistency calls,
\* no caller that holds the lock is in a record-store read or an index
\* search, lastCheck and lastCheckTime are only read or replaced together
\* under the lock, and no caller blocks on the lock for the duration of
\* another caller's store scan. A store scan of one caller may be in progress
\* while another caller holds the lock.
C30_LockNeverHeldAcrossIO ==
    /\ \A c \in Callers : HoldsLock(c) => cpc[c] \in ReadSection \cup WriteSection
    /\ CacheAccessedUnderLock
    /\ NoCallerWaitsForScan

\* one goroutine replaces the cached result, holding the lock, while another
\* is in its index search
C30_Witness ==
    \E c, d \in Callers :
        /\ c # d
        /\ cpc[c] = "readIndex"
        /\ mu.writer = d
        /\ cpc[d] = "writeLastCheckTime"

(***************************************************************************)
(* Claims about the contexts of requests, ForceSyncData, BulkIndex and     *)
(* concurrent calls                                                        *)
(***************************************************************************)
\* C31: every request an attempt of ExecuteWithRetry makes (bulk write,
\* single-document index, single-document delete) is bound to the attempt's
\* own 30s context, not to the outer context: no request is answered after
\* the timeout of its attempt has run out.
C31_RequestsBoundToAttemptCtx ==
    \A r \in requestLog : r.ctx = "opCtx" /\ ~r.overran

\* every loader goroutine has returned, and none met a failure that lasted:
\* the record-store read answered and every chunk was indexed within its
\* attempts
BootstrapsDone ==
    \A p \in Loaders :
        /\ loaders[p].pc = "done"
        /\ loaders[p].result = "nil"
        /\ loaders[p].errorCount = 0

\* the records, as the ids of their documents
RecordIds == 1..total

\* C32: with the record store unchanged and no permanent failures, Bootstrap
\* calls run one after the other or interleaved leave the index as a single
\* Bootstrap run does: from an empty index one document per record, keyed by
\* the record's id; an index that held a document is left as it was, or, when
\* the probe failed, with one document per record added.
C32_BootstrapIdempotent ==
    BootstrapsDone =>
        /\ index0 = {} => index = RecordIds
        /\ index \in {index0, index0 \cup RecordIds}

\* two goroutines both found the index empty, both went through the chunks
\* of a record set of more than one chunk, and both have returned
C32_Witness ==
    /\ BootstrapsDone
    /\ index0 = {}
    /\ total > batchSize
    /\ \E p, q \in Loaders :
          /\ p # q
          /\ loaders[p].successCount = total
          /\ loaders[q].successCount = total

FullCheckOf(id) ==
    [MissingInES |-> IF id \in MissingFrom(DOMAIN dbEvents, DOMAIN osDocs)
                     THEN <<id>> ELSE <<>>,
     MissingInDB |-> IF id \in MissingFrom(DOMAIN osDocs, DOMAIN dbEvents)
                     THEN <<id>> ELSE <<>>,
     Mismatches |-> IF id \in DOMAIN dbEvents \cap DOMAIN osDocs
                    THEN compareEvent(dbEvents[id], osDocs[id]) ELSE <<>>]

\* C34: when all its reads succeed, the missing-in-index, missing-in-record-
\* store and mismatch lists of CheckEventConsistency(id) equal the restriction
\* to that id of the lists a recomputed CheckConsistency reports on the same
\* state of the stores.
C34_EventCheckAgreesWithFullCheck ==
    (/\ kcall = "CheckEventConsistency"
     /\ kpc = "done"
     /\ checkErr = "nil"
     /\ kDbErr \in {"nil", "notFound"}
     /\ ~kIndexErr)
        => /\ checkResult.MissingInES = FullCheckOf(kid).MissingInES
           /\ checkResult.MissingInDB = FullCheckOf(kid).MissingInDB
           /\ checkResult.Mismatches = FullCheckOf(kid).Mismatches

\* C35: every id a recomputed CheckConsistency lists as missing in the index
\* has no document in the index, also when the index holds more documents
\* than the page of 10,000 of the index read; and the index total of the
\* result is the number of documents the records were compared with.
C35_MissingInIndexHasNoDocument ==
    Recomputed =>
        /\ \A id \in SeqRange(checkResult.MissingInES) : id \notin DOMAIN osDocs
        /\ checkResult.TotalEventsES = PageLength

\* C36: BulkIndex stops at the first chunk that fails after its retries: the
\* chunk that failed is the last one it took up and its error is returned, and
\* every chunk taken up before another one was written to the index and stays
\* written (all of its documents but those the index rejected).
BulkChunkWritten(k) ==
    \A id \in (bLo + bulkChunkLog[k][1] + 1)..(bLo + bulkChunkLog[k][2]) :
        id \in rejectedIds \/ id \in index

C36_BulkIndexStopsAtFirstFailure ==
    entry = "BulkIndexEvents" =>
        /\ \A k \in 1..(Len(bulkChunkLog) - 1) : BulkChunkWritten(k)
        /\ (mpc \in {"returned", "done"} /\ bulkResult = "batchErr") =>
               /\ bi < bHi - bLo
               /\ bulkChunkLog[Len(bulkChunkLog)] =
                      <<bi, BulkChunkEnd(bi, bHi - bLo)>>
               /\ Len(bulkChunkLog) = (bi \div maxBatchSize) + 1

\* the second of three chunks failed: the first is written, the third was
\* not taken up and none of its documents is in the index
C36_Witness ==
    /\ entry = "BulkIndexEvents"
    /\ mpc = "done"
    /\ bulkResult = "batchErr"
    /\ bi = maxBatchSize
    /\ bHi - bLo > 2 * maxBatchSize
    /\ Len(bulkChunkLog) = 2
    /\ BulkChunkWritten(1)
    /\ \A id \in (bLo + 2 * maxBatchSize + 1)..bHi : id \notin index

\* C37: with record-store writes made after the CheckResult was computed,
\* RepairInconsistencies never deletes an index document whose id the record
\* store holds at the moment of the delete.
C37_RepairNeverDeletesLiveDocument ==
    [][\A id \in DOMAIN osDocs :
          id \notin DOMAIN osDocs' => id \notin DOMAIN dbEvents]_vars

\* C38: with concurrent CheckConsistency calls, every replacement of the
\* cached result stores a result whose Timestamp is not older than the
\* Timestamp of the result it replaces.
C38_CacheNeverGoesBackInTime ==
    [][(~lastCheck.isNil /\ lastCheck' # lastCheck) =>
          lastCheck'.Timestamp >= lastCheck.Timestamp]_vars

\* C39: RepairInconsistencies called with a result whose IsConsistent is true
\* reads no record, sends no request to the index and returns nil, whatever
\* the three lists hold; with IsConsistent false it takes up each mismatched
\* id at most once per call, however many FieldMismatch entries name it.
RepairDidNothing ==
    /\ kpc = "done"
    /\ repairResult = "nil"
    /\ rAttempts = {}
    /\ rIndexRequests = 0
    /\ rDeleteRequests = 0
    /\ rWritten = {}
    /\ requestLog = {}

UpdateEventBegins == kpc = "repairMismatch" /\ kpc' = "indexMismatch"

C39_ConsistentIsNoOpAndMismatchOnce ==
    /\ []((kcall = "RepairInconsistencies" /\ checkResult.IsConsistent) =>
             RepairDidNothing)
    /\ [][UpdateEventBegins =>
             <<"Mismatches", rEvent'["id"]>> \notin rAttempts]_vars
    /\ [][(kcall = "RepairInconsistencies" /\ checkResult.IsConsistent) =>
             (kcall' = "RepairInconsistencies" =>
                 osDocs' = osDocs /\ dbEvents' = dbEvents)]_vars

\* a repair called with IsConsistent = true and three lists that are not
\* empty has returned nil
C39_Witness ==
    /\ kcall = "RepairInconsistencies"
    /\ checkResult.IsConsistent
    /\ checkResult.MissingInES # <<>>
    /\ checkResult.MissingInDB # <<>>
    /\ Len(checkResult.Mismatches) > 1
    /\ RepairDidNothing

\* C40: ForceSync reads the record set before it touches the index: while the
\* read is pending the index is as it was; when the read fails (as it does
\* under a cancelled context) ForceSync returns the error and the index is
\* left unchanged; when recreating the index fails no chunk is submitted.
C40_ForceSyncReadsRecordsFirst ==
    entry = "ForceSync" =>
        /\ lpc = "getEvents" => (index = index0 /\ ~indexWritten)
        /\ bootResult = "storeErr" =>
              /\ lpc = "done"
              /\ index = index0
              /\ ~indexWritten
              /\ chunkLog = <<>>
              /\ bulkChunkLog = <<>>
        /\ cancelledAt = "getEvents" =>
              /\ lpc \in {"getEvents", "done"}
              /\ lpc = "done" => bootResult = "storeErr"
        /\ bootResult = "recreateErr" =>
              /\ lpc = "done"
              /\ chunkLog = <<>>
              /\ bulkChunkLog = <<>>
              /\ ~indexWritten

\* the read of more than one chunk of records failed and the index still
\* holds the document it held
C40_Witness ==
    /\ entry = "ForceSync"
    /\ lpc = "done"
    /\ bootResult = "storeErr"
    /\ total > batchSize
    /\ index0 # {}
    /\ index = index0

====
